---- MODULE Spec2Model ----
(***************************************************************************)
(* A model of the CSS selector generator: the document tree and its query  *)
(* interface, the selector descriptors, the six generators, the selector   *)
(* builder and the top-down optimizer, and the getSelector entry point     *)
(* that drives them.                                                       *)
(*                                                                         *)
(* A selector string is kept as the sequence of its lexical tokens (the    *)
(* fragments of the descriptors and the combinators the builder puts       *)
(* between them); Text flattens a token sequence to the string itself.     *)
(* Descriptors are JavaScript objects compared by identity, so a set of    *)
(* descriptors is kept as a sequence of indices into the array that holds  *)
(* the generated descriptors.                                              *)
(***************************************************************************)
EXTENDS Integers, Sequences, FiniteSets, TLC

VARIABLES
  doc,              \* the ambient document: parent, tag, id, cls, att, txt per node
  input,            \* the argument of getSelector
  pc,               \* position of the call
  elements,         \* normalizedElements
  selectors,        \* the descriptors generated so far (the array `selectors`)
  currentSet,       \* findBest: indices (into selectors) of the current set
  sortedSelectors,  \* findBest: indices in cost-descending order
  startingCount,    \* findBest: match count of the full set
  removed,          \* findBest: indices removed, in the order of the commits
  logged,           \* what the degenerate path wrote to the console
  result,           \* the selector getSelector returned (tokens), or NoResult
  error,            \* the message of the error thrown, or ""
  ran,              \* the pipeline stages that have run so far
  bestSelectorSet,  \* bottom-up findBest: indices of the best set so far
  bestValue,        \* bottom-up findBest: its match count, or Infinity
  threshold         \* bottom-up findBest: the improvement a pass asks for

vars == <<doc, input, pc, elements, selectors, currentSet, sortedSelectors,
          startingCount, removed, logged, result, error, ran,
          bestSelectorSet, bestValue, threshold>>

-----------------------------------------------------------------------------
(* Bounds of the model *)

MaxNodes == 4
MaxMarked == 2

-----------------------------------------------------------------------------
(* Cost constants *)

COST_ID == 0
COST_CLASS == 1
COST_TAG == 2
COST_ATTR == 3
COST_PARENT == 10
COST_SIBLING == 100
COST_CHILDREN == 100
COST_DISTANCE == 1
COST_IS_HAS == 5
COST_NOT == 10

-----------------------------------------------------------------------------
(* Sequence helpers (Array.prototype.filter / map / includes / concat) *)

Contains(s, e) == \E i \in 1..Len(s) : s[i] = e

(* F applied to the value of v.  The value is computed once, where an       *)
(* operator argument would be computed again at each of its uses.          *)
Strict(v, F(_)) == CHOOSE out \in {F(x) : x \in {v}} : TRUE

(* Array.prototype.map: the array of the values, each computed once *)
MapSeq(s, F(_)) == Strict(s, LAMBDA array : [i \in 1..Len(array) |-> F(array[i])] \o <<>>)

RECURSIVE Flatten(_)
Flatten(ss) == IF ss = <<>> THEN <<>> ELSE Head(ss) \o Flatten(Tail(ss))

RECURSIVE SortedSeq(_)
SortedSeq(S) ==
  IF S = {} THEN <<>>
  ELSE Strict(CHOOSE x \in S : \A y \in S : x <= y,
              LAMBDA m : <<m>> \o Strict(S \ {m}, SortedSeq))

RECURSIVE Rep(_, _)
Rep(s, n) == IF n <= 0 THEN "" ELSE s \o Rep(s, n - 1)

RECURSIVE Text(_)
Text(toks) == IF toks = <<>> THEN "" ELSE Head(toks) \o Text(Tail(toks))

-----------------------------------------------------------------------------
(* Names.  A tag, id, class or attribute name is a sequence of characters, *)
(* so that the wildcard matcher and CSS.escape work on its characters.     *)

Str(name) == Text(name)

Range(s) == {s[i] : i \in DOMAIN s}

DIV == <<"d", "i", "v">>
P == <<"p">>
ID_A == <<"a">>
CLASS_C == <<"c">>
ATTR_ID == <<"i", "d">>
ATTR_CLASS == <<"c", "l", "a", "s", "s">>

Letters ==
  {"a", "b", "c", "d", "e", "f", "g", "h", "i", "j", "k", "l", "m",
   "n", "o", "p", "q", "r", "s", "t", "u", "v", "w", "x", "y", "z"}
Digits == {"0", "1", "2", "3", "4", "5", "6", "7", "8", "9"}

(* CSS.escape: a leading digit (or a digit after a leading "-") becomes a  *)
(* code-point escape, a lone "-" is escaped, letters, digits, "-" and "_"  *)
(* stay, any other character is preceded by a backslash.                   *)
CSSescape(name) ==
  Flatten([i \in 1..Len(name) |->
    LET c == name[i] IN
    IF c \in Digits /\ (i = 1 \/ (i = 2 /\ name[1] = "-"))
      THEN <<"\\", "3", c, " ">>
    ELSE IF c = "-" /\ i = 1 /\ Len(name) = 1 THEN <<"\\", c>>
    ELSE IF c \in Letters \cup Digits \cup {"-", "_"} THEN <<c>>
    ELSE <<"\\", c>>])

-----------------------------------------------------------------------------
(* Blacklists and the wildcard matcher *)

BLACKLIST_IDS ==
  << <<"*", "l", "o", "t", "t", "i", "e", "*">>,
     <<"s", "e", "l", "e", "c", "t", "o", "r", "-",
       "g", "e", "n", "e", "r", "a", "t", "o", "r">> >>

BLACKLIST_CLASSES ==
  << <<"*", "-", "n", "g", "-", "*">>,
     <<"n", "g", "-", "*">>,
     <<"*", "t", "w", "-", "*">>,
     <<"*", "[", "*", "p", "x", "]", "*">> >>

BLACKLIST_ATTRIBUTES ==
  << <<"*", "-", "n", "g", "-", "*">>,
     <<"n", "g", "-", "*">>,
     <<"*", "t", "w", "-", "*">>,
     <<"x", "m", "l", "n", "s", "*">> >>

(* #patternToRegex + RegExp.test: every character of the pattern is        *)
(* literal except "*", which stands for any run of characters; the match   *)
(* is anchored at both ends.                                               *)
RECURSIVE patternTest(_, _)
patternTest(pattern, value) ==
  IF pattern = <<>> THEN value = <<>>
  ELSE IF Head(pattern) = "*"
    THEN \/ patternTest(Tail(pattern), value)
         \/ (value # <<>> /\ patternTest(pattern, Tail(value)))
  ELSE /\ value # <<>>
       /\ Head(value) = Head(pattern)
       /\ patternTest(Tail(pattern), Tail(value))

BlacklistMatches(value, patterns) ==
  IF value = <<>> \/ Len(patterns) = 0 THEN FALSE
  ELSE \E i \in 1..Len(patterns) : patternTest(patterns[i], value)

-----------------------------------------------------------------------------
(* The document.  Nodes are numbered 1..N in document order (preorder);    *)
(* parent 0 is "no parent element".  id = <<>> is "no id attribute",       *)
(* cls = <<>> "no class attribute"; att lists the other attribute names;   *)
(* txt says whether the element has a text child.                          *)

Plain == [tag |-> DIV, id |-> <<>>, cls |-> <<>>, att |-> <<>>, txt |-> FALSE]
WithId == [tag |-> DIV, id |-> ID_A, cls |-> <<>>, att |-> <<>>, txt |-> FALSE]
WithClass == [tag |-> DIV, id |-> <<>>, cls |-> <<CLASS_C>>, att |-> <<>>, txt |-> FALSE]
Para == [tag |-> P, id |-> <<>>, cls |-> <<CLASS_C>>, att |-> <<>>, txt |-> TRUE]

Kinds == {Plain, WithId, WithClass, Para}

(* The tree <div id="app"><button class="btn primary">Go</button>          *)
(* <button class="btn">Stop</button></div>                                 *)
BUTTON == <<"b", "u", "t", "t", "o", "n">>
ID_APP == <<"a", "p", "p">>
CLASS_BTN == <<"b", "t", "n">>
CLASS_PRIMARY == <<"p", "r", "i", "m", "a", "r", "y">>
App == [tag |-> DIV, id |-> ID_APP, cls |-> <<>>, att |-> <<>>, txt |-> FALSE]
Go == [tag |-> BUTTON, id |-> <<>>, cls |-> <<CLASS_BTN, CLASS_PRIMARY>>, att |-> <<>>,
       txt |-> TRUE]
Stop == [tag |-> BUTTON, id |-> <<>>, cls |-> <<CLASS_BTN>>, att |-> <<>>, txt |-> TRUE]
ScenarioKinds == {App, Go, Stop}
ScenarioDoc == [parent |-> <<0, 1, 1>>, node |-> <<App, Go, Stop>>]

RECURSIVE AncSelf(_, _)
AncSelf(par, x) == IF x = 0 THEN {} ELSE {x} \cup AncSelf(par, par[x])

Shapes(n) ==
  {par \in [1..n -> 0..(n - 1)] :
     /\ par[1] = 0
     /\ \A i \in 2..n : par[i] \in AncSelf(par, i - 1)}

Docs ==
  UNION {
    {[parent |-> par, node |-> nd] :
       par \in Shapes(n),
       nd \in {f \in [1..n -> Kinds] :
                 Cardinality({i \in 1..n : f[i] # Plain}) <= MaxMarked}}
    : n \in 1..MaxNodes}

N == Len(doc.parent)
Nodes == 1..N

NotElement == 0        \* a value that is no HTMLElement / SVGElement
Foreign == -1          \* an element that belongs to another document

parentElement(x) == doc.parent[x]
children(x) == SortedSeq({y \in Nodes : doc.parent[y] = x})
localName(x) == doc.node[x].tag
idOf(x) == doc.node[x].id
classList(x) == doc.node[x].cls
hasText(x) == doc.node[x].txt
attributes(x) ==
  (IF idOf(x) # <<>> THEN <<ATTR_ID>> ELSE <<>>)
  \o (IF classList(x) # <<>> THEN <<ATTR_CLASS>> ELSE <<>>)
  \o doc.node[x].att
hasAttribute(x, name) == Contains(attributes(x), name)

IndexOf(s, e) == IF Contains(s, e) THEN (CHOOSE i \in 1..Len(s) : s[i] = e) - 1 ELSE -1

(* The element children of x's parent; the root is the only child of the document *)
siblingList(x) == IF parentElement(x) = 0 THEN <<x>> ELSE children(parentElement(x))
previousElementSibling(x) ==
  LET s == siblingList(x)  i == IndexOf(s, x) IN IF i = 0 THEN 0 ELSE s[i]
nextElementSibling(x) ==
  LET s == siblingList(x)  i == IndexOf(s, x) IN IF i + 1 = Len(s) THEN 0 ELSE s[i + 2]

Ancestors(x) == AncSelf(doc.parent, x) \ {x}
Descendants(x) == {y \in Nodes : x \in Ancestors(y)}
contains(a, b) == b \in Descendants(a) \cup {a}
DepthBelow(x, y) == Cardinality(AncSelf(doc.parent, y)) - Cardinality(AncSelf(doc.parent, x))

isValid(e) == e # NotElement
ownerDocument(e) == IF e = Foreign THEN "other" ELSE "document"

-----------------------------------------------------------------------------
(* The meaning of the selector fragments the generators write.  SemPairs   *)
(* pairs every fragment string with what it requires of an element;        *)
(* Sem looks a fragment up by its text.                                    *)

UTags == {k.tag : k \in Kinds \cup ScenarioKinds}
UIds == {k.id : k \in Kinds \cup ScenarioKinds} \ {<<>>}
UClasses == UNION {Range(k.cls) : k \in Kinds \cup ScenarioKinds}
UAttrs == {ATTR_ID, ATTR_CLASS} \cup UNION {Range(k.att) : k \in Kinds \cup ScenarioKinds}
UCounts == 1..(MaxNodes + 1)

tagSelector(t) == Str(t)
idSelector(i) == "#" \o Str(CSSescape(i))
classSelector(c) == "." \o Str(CSSescape(c))
attrSelector(a) == "[" \o Str(CSSescape(a)) \o "]"

SimplePairs ==
  {<<tagSelector(t), [k |-> "tag", v |-> t]>> : t \in UTags}
  \cup {<<idSelector(i), [k |-> "id", v |-> i]>> : i \in UIds}
  \cup {<<classSelector(c), [k |-> "class", v |-> c]>> : c \in UClasses}
  \cup {<<attrSelector(a), [k |-> "attr", v |-> a]>> : a \in UAttrs}

NthLast(n) == [k |-> "nth-child-last", n |-> n]
NthLastText(n) == ":nth-child(" \o ToString(n) \o "):last-child"

(* what the generators derive from a simple fragment *)
DerivedPairs(sp) ==
  {<<":not(" \o sp[1] \o ")", [k |-> "not", a |-> sp[2]]>>,
   <<":not(:has(" \o sp[1] \o "))", [k |-> "not-has", a |-> sp[2]]>>,
   <<":is(" \o sp[1] \o " ~ *)", [k |-> "after", a |-> sp[2]]>>,
   <<":has(~ " \o sp[1] \o ")", [k |-> "before", a |-> sp[2]]>>,
   <<":has(* " \o sp[1] \o ")", [k |-> "has", rel |-> "deep", d |-> 0, a |-> sp[2]]>>}
  \cup {<<":has(" \o Rep(">*", d - 1) \o ">" \o sp[1] \o ")",
          [k |-> "has", rel |-> "exact", d |-> d, a |-> sp[2]]>> : d \in UCounts}

(* what the generators write about positions and children *)
PositionPairs(n) ==
  {<<":nth-child(" \o ToString(n) \o ")", [k |-> "nth-child", n |-> n]>>,
   <<":nth-last-child(" \o ToString(n) \o ")", [k |-> "nth-last-child", n |-> n]>>,
   <<":has(" \o Rep(">*", n) \o ":empty)",
     [k |-> "has", rel |-> "exact", d |-> n, a |-> [k |-> "empty"]]>>,
   <<":has(" \o NthLastText(n) \o ")",
     [k |-> "has", rel |-> "any", d |-> 0, a |-> NthLast(n)]>>,
   <<":has(* " \o NthLastText(n) \o ")",
     [k |-> "has", rel |-> "deep", d |-> 0, a |-> NthLast(n)]>>}
  \cup {<<":has(" \o Rep(">*", d) \o ">*" \o NthLastText(n) \o ")",
          [k |-> "has", rel |-> "exact", d |-> d + 1, a |-> NthLast(n)]>> : d \in UCounts}

SemPairs ==
  {<<"*", [k |-> "any"]>>,
   <<":first-child", [k |-> "first-child"]>>,
   <<":last-child", [k |-> "last-child"]>>,
   <<":only-child", [k |-> "only-child"]>>,
   <<":empty", [k |-> "empty"]>>,
   <<":not(:has(>*))", [k |-> "no-child"]>>,
   <<":has(:empty)", [k |-> "has", rel |-> "any", d |-> 0, a |-> [k |-> "empty"]]>>}
  \cup UNION {{sp} \cup DerivedPairs(sp) : sp \in SimplePairs}
  \cup UNION {PositionPairs(n) : n \in UCounts}

Sem(fragment) == (CHOOSE sp \in SemPairs : sp[1] = fragment)[2]

isEmpty(x) == children(x) = <<>> /\ ~hasText(x)
childIndex(x) == IndexOf(siblingList(x), x) + 1
childCount(x) == Len(siblingList(x))

RECURSIVE Holds(_, _)
Holds(x, m) ==
  CASE m.k = "any" -> TRUE
    [] m.k = "tag" -> localName(x) = m.v
    [] m.k = "id" -> idOf(x) = m.v
    [] m.k = "class" -> Contains(classList(x), m.v)
    [] m.k = "attr" -> hasAttribute(x, m.v)
    [] m.k = "first-child" -> childIndex(x) = 1
    [] m.k = "last-child" -> childIndex(x) = childCount(x)
    [] m.k = "only-child" -> childCount(x) = 1
    [] m.k = "nth-child" -> childIndex(x) = m.n
    [] m.k = "nth-last-child" -> childCount(x) - childIndex(x) + 1 = m.n
    [] m.k = "nth-child-last" -> childIndex(x) = m.n /\ childIndex(x) = childCount(x)
    [] m.k = "empty" -> isEmpty(x)
    [] m.k = "no-child" -> children(x) = <<>>
    [] m.k = "not" -> ~Holds(x, m.a)
    [] m.k = "not-has" -> ~\E y \in Descendants(x) : Holds(y, m.a)
    [] m.k = "after" ->
         \E y \in Range(siblingList(x)) : y < x /\ Holds(y, m.a)
    [] m.k = "before" ->
         \E y \in Range(siblingList(x)) : y > x /\ Holds(y, m.a)
    [] m.k = "has" ->
         \E y \in Descendants(x) :
           /\ CASE m.rel = "exact" -> DepthBelow(x, y) = m.d
                [] m.rel = "deep" -> DepthBelow(x, y) >= 2
                [] m.rel = "any" -> TRUE
           /\ Holds(y, m.a)

(* A compound selector: every fragment must hold of the element *)
matchesCompound(x, toks) ==
  \A i \in 1..Len(toks) : \E m \in {Sem(toks[i])} : Holds(x, m)

CHILD == " > "
DESCENDANT == " "
isCombinator(tok) == tok \in {CHILD, DESCENDANT}

(* A complex selector, matched from its rightmost compound leftwards *)
RECURSIVE matchesSelector(_, _)
matchesSelector(x, toks) ==
  LET cs == {i \in 1..Len(toks) : isCombinator(toks[i])} IN
  IF cs = {} THEN matchesCompound(x, toks)
  ELSE LET c == CHOOSE i \in cs : \A j \in cs : j <= i
           left == SubSeq(toks, 1, c - 1)
           right == SubSeq(toks, c + 1, Len(toks))
       IN  /\ \E compound \in {right} : matchesCompound(x, compound)
           /\ \E rest \in {left} :
                IF toks[c] = CHILD
                  THEN parentElement(x) # 0 /\ matchesSelector(parentElement(x), rest)
                  ELSE \E a \in Ancestors(x) : matchesSelector(a, rest)

(* DOMService.querySelectorAll: the matching elements in document order *)
querySelectorAll(toks) ==
  Strict(toks, LAMBDA selector : SortedSeq({x \in Nodes : matchesSelector(x, selector)}))

(* element.querySelector(fragment): is some descendant of x matched *)
querySelectorIn(x, fragment) == \E y \in Descendants(x) : Holds(y, Sem(fragment))

-----------------------------------------------------------------------------
(* SelectorBuilder.  A descriptor is [cost, level, type, selector].        *)

OfType(sels, t) == SelectSeq(sels, LAMBDA d : d.type = t)
Fragments(sels) == MapSeq(sels, LAMBDA d : d.selector)

(* a build that writes the classes before the id *)
simpleBuildClassFirst(sels) ==
  Fragments(OfType(sels, "tag"))
  \o Fragments(OfType(sels, "class"))
  \o Fragments(OfType(sels, "id"))
  \o Fragments(OfType(sels, "attr"))
  \o Fragments(OfType(sels, "pseudo"))

simpleBuild(sels) ==
  Fragments(OfType(sels, "tag"))
  \o Fragments(OfType(sels, "id"))
  \o Fragments(OfType(sels, "class"))
  \o Fragments(OfType(sels, "attr"))
  \o Fragments(OfType(sels, "pseudo"))

(* a combinator chosen from the level alone, the previous level forgotten *)
combinatorByLevel(level, prevLevel) == IF level = 1 THEN CHILD ELSE DESCENDANT

(* "Add appropriate combinator based on level difference" *)
combinatorFor(level, prevLevel) == IF level = prevLevel + 1 THEN CHILD ELSE DESCENDANT

RECURSIVE prependLevels(_, _, _, _)
prependLevels(selector, levels, prevLevel, parentSelectors) ==
  IF levels = <<>> THEN selector
  ELSE Strict(Head(levels), LAMBDA level :
         Strict(simpleBuild(SelectSeq(parentSelectors, LAMBDA d : d.level = level))
                  \o <<combinatorFor(level, prevLevel)>> \o selector,
                LAMBDA prepended :
                  Strict(Tail(levels), LAMBDA rest :
                    prependLevels(prepended, rest, level, parentSelectors))))

(* an own part that is left as it is, empty or not *)
universalNever(ownSelector) == ownSelector

(* if (selector === "") selector = "*" *)
universalIfEmpty(ownSelector) == IF Text(ownSelector) = "" THEN <<"*">> ELSE ownSelector

build(selectorSet) ==
  Strict(SelectSeq(selectorSet, LAMBDA d : d.level > 0), LAMBDA parentSelectors :
    Strict(simpleBuild(SelectSeq(selectorSet, LAMBDA d : d.level <= 0)), LAMBDA ownSelector :
      Strict(universalIfEmpty(ownSelector), LAMBDA selector :
        IF Len(parentSelectors) > 0
          THEN Strict(SortedSeq({parentSelectors[i].level : i \in 1..Len(parentSelectors)}),
                      LAMBDA levels : prependLevels(selector, levels, 0, parentSelectors))
          ELSE selector)))

-----------------------------------------------------------------------------
(* Generators.  Each returns the array of descriptors it pushes, in order. *)

Descriptor(c, l, t, s) == [cost |-> c, level |-> l, type |-> t, selector |-> s]

(* an intersection that keeps the whole set of the first element *)
firstSetOnly(sets) == IF Len(sets) = 0 THEN <<>> ELSE sets[1]

(* "Find common selectors across all elements": the descriptors of the     *)
(* first element's set that have an equal in every element's set           *)
commonByTriple(sets) ==
  IF Len(sets) = 0 THEN <<>>
  ELSE SelectSeq(sets[1], LAMBDA descriptor :
         \A i \in 1..Len(sets) : \E j \in 1..Len(sets[i]) :
           /\ sets[i][j].level = descriptor.level
           /\ sets[i][j].type = descriptor.type
           /\ sets[i][j].selector = descriptor.selector)

commonBySelector(sets) ==
  IF Len(sets) = 0 THEN <<>>
  ELSE SelectSeq(sets[1], LAMBDA descriptor :
         \A i \in 1..Len(sets) : \E j \in 1..Len(sets[i]) :
           sets[i][j].selector = descriptor.selector)

(* a per-element body that consults no blacklist *)
localOfUnfiltered(element) ==
  (IF idOf(element) # <<>>
     THEN <<Descriptor(COST_ID, 0, "id", "#" \o Str(CSSescape(idOf(element))))>>
     ELSE <<>>)
  \o <<Descriptor(COST_TAG, 0, "tag", Str(localName(element)))>>
  \o Flatten([i \in 1..Len(attributes(element)) |->
       LET name == attributes(element)[i] IN
       IF name = ATTR_CLASS
         THEN MapSeq(classList(element), LAMBDA currentClass :
                Descriptor(COST_CLASS, 0, "class", "." \o Str(CSSescape(currentClass))))
         ELSE <<Descriptor(COST_ATTR, 0, "attr", "[" \o Str(CSSescape(name)) \o "]")>>])

(* LocalSelectorGenerator: the per-element body of generate *)
localOf(element) ==
  (IF idOf(element) # <<>> /\ ~BlacklistMatches(idOf(element), BLACKLIST_IDS)
     THEN <<Descriptor(COST_ID, 0, "id", "#" \o Str(CSSescape(idOf(element))))>>
     ELSE <<>>)
  \o <<Descriptor(COST_TAG, 0, "tag", Str(localName(element)))>>
  \o Flatten([i \in 1..Len(attributes(element)) |->
       LET name == attributes(element)[i] IN
       IF name = ATTR_CLASS
         THEN Flatten([c \in 1..Len(classList(element)) |->
                LET currentClass == classList(element)[c] IN
                IF ~BlacklistMatches(currentClass, BLACKLIST_CLASSES)
                  THEN <<Descriptor(COST_CLASS, 0, "class",
                                    "." \o Str(CSSescape(currentClass)))>>
                  ELSE <<>>])
       ELSE IF ~BlacklistMatches(name, BLACKLIST_ATTRIBUTES)
         THEN <<Descriptor(COST_ATTR, 0, "attr", "[" \o Str(CSSescape(name)) \o "]")>>
         ELSE <<>>])

localGenerator(elems) == commonByTriple(MapSeq(elems, localOf))

(* AttributeCollector *)
collectExtraIds(targetElement, elems) ==
  Flatten([i \in 1..Len(elems) |->
    IF elems[i] = targetElement THEN <<>>
    ELSE IF idOf(elems[i]) # <<>> /\ ~BlacklistMatches(idOf(elems[i]), BLACKLIST_IDS)
      THEN <<CSSescape(idOf(elems[i]))>>
      ELSE <<>>])

(* push CSS.escape(c) for each candidate the target lacks, that the list   *)
(* does not include (compared unescaped) and that is not blacklisted       *)
RECURSIVE pushExtra(_, _, _, _)
pushExtra(cands, extra, lacks, patterns) ==
  IF cands = <<>> THEN extra
  ELSE LET c == Head(cands) IN
       pushExtra(Tail(cands),
                 IF c \in lacks /\ ~Contains(extra, c) /\ ~BlacklistMatches(c, patterns)
                   THEN Append(extra, CSSescape(c)) ELSE extra,
                 lacks, patterns)

collectExtraClasses(targetElement, elems) ==
  LET cands == Flatten([i \in 1..Len(elems) |->
                 IF elems[i] = targetElement THEN <<>> ELSE classList(elems[i])])
  IN  pushExtra(cands, <<>>,
                {c \in Range(cands) : ~Contains(classList(targetElement), c)},
                BLACKLIST_CLASSES)

collectExtraAttributes(targetElement, elems) ==
  LET cands == Flatten([i \in 1..Len(elems) |->
                 IF elems[i] = targetElement THEN <<>> ELSE attributes(elems[i])])
  IN  pushExtra(cands, <<>>,
                {a \in Range(cands) : ~hasAttribute(targetElement, a)},
                BLACKLIST_ATTRIBUTES)

(* LocalExclusionGenerator: the per-element body of generate *)
exclusionFrom(element, matchedElements) ==
  MapSeq(collectExtraIds(element, matchedElements), LAMBDA extraId :
    Descriptor(COST_NOT + COST_ID, 0, "pseudo", ":not(#" \o Str(extraId) \o ")"))
  \o MapSeq(collectExtraClasses(element, matchedElements), LAMBDA extraClass :
    Descriptor(COST_NOT + COST_CLASS, 0, "pseudo", ":not(." \o Str(extraClass) \o ")"))
  \o MapSeq(collectExtraAttributes(element, matchedElements), LAMBDA extraAttribute :
    Descriptor(COST_NOT + COST_ATTR, 0, "pseudo", ":not([" \o Str(extraAttribute) \o "])"))

exclusionOf(element) ==
  LET localSelectors == localGenerator(<<element>>)
      baseSelector == build(localSelectors)
      matchedElements == querySelectorAll(baseSelector)
  IN  exclusionFrom(element, matchedElements)

exclusionGenerator(elems) == commonByTriple(MapSeq(elems, exclusionOf))

(* an anchored cost that forgets the depth *)
anchoredCostFlat(depth, localCost) ==
  COST_DISTANCE + COST_IS_HAS + COST_CHILDREN + localCost

(* the cost of ":has(<path>>X)" for a local descriptor X of a child found  *)
(* at the given depth                                                      *)
anchoredCost(depth, localCost) ==
  depth * COST_DISTANCE + COST_IS_HAS + COST_CHILDREN + localCost

(* the cost of the unanchored descriptor, written for depth > 0 *)
unanchoredCost(localCost) == COST_DISTANCE + COST_IS_HAS + COST_CHILDREN + localCost

(* ChildrenSelectorGenerator.#processChildren *)
RECURSIVE processChildren(_, _)
processChildren(element, depth) ==
  LET ch == children(element)
      depthSelector == Rep(">*", depth)
      ofChild(child) ==
        LET localSelectors == localGenerator(<<child>>) IN
        Flatten(MapSeq(localSelectors, LAMBDA childrenLocalSelector :
          <<Descriptor(anchoredCost(depth, childrenLocalSelector.cost),
                       0, "pseudo",
                       IF depth > 0
                         THEN ":has(" \o depthSelector \o ">"
                              \o childrenLocalSelector.selector \o ")"
                         ELSE ":has(>" \o childrenLocalSelector.selector \o ")")>>
          \o (IF depth > 0
                THEN <<Descriptor(unanchoredCost(childrenLocalSelector.cost),
                                  0, "pseudo",
                                  ":has(* " \o childrenLocalSelector.selector \o ")")>>
                ELSE <<>>)))
        \o processChildren(child, depth + 1)
  IN
  IF Len(ch) = 0 THEN
    IF hasText(element) /\ depth = 0
      THEN <<Descriptor(depth * COST_DISTANCE + COST_NOT + COST_IS_HAS + COST_CHILDREN,
                        0, "pseudo", ":not(:has(>*))")>>
    ELSE IF ~hasText(element)
      THEN <<Descriptor(depth * COST_DISTANCE + COST_IS_HAS + COST_CHILDREN, 0, "pseudo",
                        IF depth > 0 THEN ":has(" \o depthSelector \o ":empty)" ELSE ":empty")>>
           \o (IF depth > 0
                 THEN <<Descriptor(COST_DISTANCE + COST_IS_HAS + COST_CHILDREN,
                                   0, "pseudo", ":has(:empty)")>>
                 ELSE <<>>)
    ELSE <<>>
  ELSE
    <<Descriptor(depth * COST_DISTANCE + COST_IS_HAS + COST_CHILDREN, 0, "pseudo",
                 IF depth > 0
                   THEN ":has(" \o depthSelector \o ">*:nth-child(" \o ToString(Len(ch))
                        \o "):last-child)"
                   ELSE ":has(:nth-child(" \o ToString(Len(ch)) \o "):last-child)")>>
    \o (IF depth > 0
          THEN <<Descriptor(COST_DISTANCE + COST_IS_HAS + COST_CHILDREN, 0, "pseudo",
                            ":has(* :nth-child(" \o ToString(Len(ch)) \o "):last-child)")>>
          ELSE <<>>)
    \o Flatten([i \in 1..Len(ch) |-> ofChild(ch[i])])

childrenGenerator(elems) ==
  commonBySelector(MapSeq(elems, LAMBDA element : processChildren(element, 0)))

(* push each candidate whose selector no descriptor pushed so far has *)
RECURSIVE pushUnique(_, _)
pushUnique(sels, cands) ==
  IF cands = <<>> THEN sels
  ELSE pushUnique(
         IF \E i \in 1..Len(sels) : sels[i].selector = Head(cands).selector
           THEN sels ELSE Append(sels, Head(cands)),
         Tail(cands))

Reverse(s) == [i \in 1..Len(s) |-> s[Len(s) + 1 - i]]

(* prevSiblingCount: the index of the element among the children of its    *)
(* parent, 0 without a previous sibling                                    *)
prevSiblingCountOf(element) ==
  IF previousElementSibling(element) # 0
    THEN IndexOf(siblingList(element), element) ELSE 0

(* a count of the siblings that follow, the element itself left out *)
nextSiblingCountAfter(element) ==
  IF nextElementSibling(element) # 0
    THEN Len(siblingList(element)) - IndexOf(siblingList(element), element) - 1 ELSE 0

(* nextSiblingCount: the number of children less the index, 0 without a    *)
(* next sibling                                                            *)
nextSiblingCountOf(element) ==
  IF nextElementSibling(element) # 0
    THEN Len(siblingList(element)) - IndexOf(siblingList(element), element) ELSE 0

(* SiblingSelectorGenerator: the per-element body of generate *)
siblingOf(element) ==
  LET sibs == siblingList(element)
      prevSibling == previousElementSibling(element)
      nextSibling == nextElementSibling(element)
      prevSiblingCount == prevSiblingCountOf(element)
      nextSiblingCount == nextSiblingCountOf(element)
      positional ==
        (IF prevSibling = 0
           THEN <<Descriptor((nextSiblingCount + 1) * COST_DISTANCE + COST_SIBLING,
                             0, "pseudo", ":first-child")>>
           ELSE <<Descriptor((prevSiblingCount + 1) * COST_DISTANCE + COST_SIBLING,
                             0, "pseudo",
                             ":nth-child(" \o ToString(prevSiblingCount + 1) \o ")")>>)
        \o (IF nextSibling = 0
              THEN <<Descriptor((prevSiblingCount + 1) * COST_DISTANCE + COST_SIBLING,
                                0, "pseudo", ":last-child")>>
              ELSE IF prevSiblingCount > 0
                THEN <<Descriptor((nextSiblingCount + 1) * COST_DISTANCE + COST_SIBLING,
                                  0, "pseudo",
                                  ":nth-last-child(" \o ToString(nextSiblingCount) \o ")")>>
                ELSE <<>>)
        \o (IF prevSibling = 0 /\ nextSibling = 0
              THEN <<Descriptor(COST_SIBLING, 0, "pseudo", ":only-child")>>
              ELSE <<>>)
      \* the previous siblings, nearest first, and the next siblings, nearest first
      prevs == Reverse(SubSeq(sibs, 1, IndexOf(sibs, element)))
      nexts == SubSeq(sibs, IndexOf(sibs, element) + 2, Len(sibs))
      afterOf(sib) ==
        LET localSelectors == localGenerator(<<sib>>) IN
        MapSeq(localSelectors, LAMBDA currentSelector :
          Descriptor(COST_SIBLING + COST_IS_HAS + currentSelector.cost, 0, "pseudo",
                     ":is(" \o currentSelector.selector \o " ~ *)"))
      beforeOf(sib) ==
        LET localSelectors == localGenerator(<<sib>>) IN
        MapSeq(localSelectors, LAMBDA currentSelector :
          Descriptor(COST_SIBLING + COST_IS_HAS + currentSelector.cost, 0, "pseudo",
                     ":has(~ " \o currentSelector.selector \o ")"))
  IN  pushUnique(
        pushUnique(positional, Flatten([i \in 1..Len(prevs) |-> afterOf(prevs[i])])),
        Flatten([i \in 1..Len(nexts) |-> beforeOf(nexts[i])]))

siblingGenerator(elems) == commonBySelector(MapSeq(elems, siblingOf))

(* ParentSelectorGenerator: the per-element body of generate *)
RECURSIVE parentWalk(_, _)
parentWalk(currentParent, level) ==
  IF currentParent = 0 THEN <<>>
  ELSE LET retag(sels) ==
             MapSeq(sels, LAMBDA currentSelector :
               Descriptor(level * COST_DISTANCE + COST_PARENT + currentSelector.cost,
                          level, currentSelector.type, currentSelector.selector))
       IN  retag(localGenerator(<<currentParent>>))
           \o retag(exclusionGenerator(<<currentParent>>))
           \o retag(siblingGenerator(<<currentParent>>))
           \o parentWalk(parentElement(currentParent), level + 1)

parentOf(element) == parentWalk(parentElement(element), 1)

parentGenerator(elems) == commonBySelector(MapSeq(elems, parentOf))

(* ChildrenExclusionGenerator: the per-element body of generate *)
childrenExclusionFrom(element, allChildren) ==
  LET classCands == Flatten(MapSeq(allChildren, classList))
      attrCands == Flatten(MapSeq(allChildren, attributes))
  IN  Flatten(MapSeq(allChildren, LAMBDA currentChild :
        IF idOf(currentChild) # <<>> /\ ~BlacklistMatches(idOf(currentChild), BLACKLIST_IDS)
          THEN <<Descriptor(COST_NOT + COST_IS_HAS + COST_CHILDREN + COST_ID, 0, "pseudo",
                            ":not(:has(#" \o Str(CSSescape(idOf(currentChild))) \o "))")>>
          ELSE <<>>))
      \o MapSeq(pushExtra(classCands, <<>>,
                          {c \in Range(classCands) :
                             ~querySelectorIn(element, "." \o Str(CSSescape(c)))},
                          BLACKLIST_CLASSES),
                LAMBDA extraClass :
                  Descriptor(COST_NOT + COST_IS_HAS + COST_CHILDREN + COST_CLASS, 0, "pseudo",
                             ":not(:has(." \o Str(extraClass) \o "))"))
      \o MapSeq(pushExtra(attrCands, <<>>,
                          {a \in Range(attrCands) :
                             ~querySelectorIn(element, "[" \o Str(CSSescape(a)) \o "]")},
                          BLACKLIST_ATTRIBUTES),
                LAMBDA extraAttr :
                  Descriptor(COST_NOT + COST_IS_HAS + COST_CHILDREN + COST_ATTR, 0, "pseudo",
                             ":not(:has([" \o Str(extraAttr) \o "]))"))

childrenExclusionOf(element) ==
  LET elementSelector == localGenerator(<<element>>)
      childrenSelector == build(elementSelector) \o <<DESCENDANT, "*">>
      allChildren == SelectSeq(querySelectorAll(childrenSelector),
                               LAMBDA currentChild : ~contains(element, currentChild))
  IN  childrenExclusionFrom(element, allChildren)

childrenExclusionGenerator(elems) ==
  commonBySelector(MapSeq(elems, childrenExclusionOf))

-----------------------------------------------------------------------------
(* TopDownSelectorOptimizer.getValue.  Null is the `null` it returns.      *)

Null == [isNull |-> TRUE, count |-> 0, cost |-> 0]

RECURSIVE sumCost(_)
sumCost(selectorSet) ==
  IF selectorSet = <<>> THEN 0 ELSE Head(selectorSet).cost + sumCost(Tail(selectorSet))

(* getValue once the selector is built and queried: results is what it matched *)
valueOf(elems, selectorSet, results) ==
  IF Len(results) = 0 THEN Null
  ELSE IF \E i \in 1..Len(elems) : ~Contains(results, elems[i]) THEN Null
  ELSE [isNull |-> FALSE, count |-> Len(results), cost |-> sumCost(selectorSet)]

getValue(elems, selectorSet) ==
  Strict(selectorSet, LAMBDA set :
    Strict(build(set), LAMBDA selector :
      IF Text(selector) = "" THEN Null
      ELSE Strict(querySelectorAll(selector), LAMBDA results : valueOf(elems, set, results))))

(* DebugOptimizer *)
matches(element, selectorSet) ==
  \E selector \in {build(selectorSet)} :
    IF Text(selector) = "" THEN FALSE
    ELSE \E results \in {querySelectorAll(selector)} : Contains(results, element)

WithoutIndex(s, i) == SubSeq(s, 1, i - 1) \o SubSeq(s, i + 1, Len(s))

(* the loop from index i down: the set after it, given the set before it *)
RECURSIVE debugPass(_, _, _)
debugPass(element, res, i) ==
  Strict(res, LAMBDA r :
    IF i < 1 \/ r = <<>> THEN r
    ELSE Strict(WithoutIndex(r, i), LAMBDA trialSet :
           debugPass(element, IF ~matches(element, trialSet) THEN trialSet ELSE r, i - 1)))

(* a debug optimizer that removes nothing *)
keepAll(element, sels) == sels

findMinimalNonMatchingSet(element, sels) == debugPass(element, sels, Len(sels))

-----------------------------------------------------------------------------
(* TopDownSelectorOptimizer.findBest.  The sets hold indices into the      *)
(* array `selectors`, so that two descriptors with equal fields stay two.  *)

SetOf(idxs) == MapSeq(idxs, LAMBDA k : selectors[k])

Without(idxs, k) == SelectSeq(idxs, LAMBDA j : j # k)

(* a sort that puts the cheapest descriptor first *)
RECURSIVE sortByCostAscending(_)
sortByCostAscending(idxs) ==
  IF idxs = <<>> THEN <<>>
  ELSE LET k == CHOOSE i \in 1..Len(idxs) :
                  \A j \in 1..Len(idxs) :
                    \/ selectors[idxs[j]].cost > selectors[idxs[i]].cost
                    \/ (selectors[idxs[j]].cost = selectors[idxs[i]].cost /\ i <= j)
       IN  <<idxs[k]>> \o sortByCostAscending(WithoutIndex(idxs, k))

(* [...currentSet].sort((a, b) => b.cost - a.cost): stable, cost descending *)
RECURSIVE sortByCost(_)
sortByCost(idxs) ==
  IF idxs = <<>> THEN <<>>
  ELSE Strict(CHOOSE i \in 1..Len(idxs) :
                \A j \in 1..Len(idxs) :
                  \/ selectors[idxs[j]].cost < selectors[idxs[i]].cost
                  \/ (selectors[idxs[j]].cost = selectors[idxs[i]].cost /\ i <= j),
              LAMBDA k : Strict(WithoutIndex(idxs, k),
                                LAMBDA rest : <<idxs[k]>> \o sortByCost(rest)))

(* an anchor test that forgets the level *)
isAnchorAnyLevel(d) == d.type = "tag"

(* an anchor test that protects no descriptor *)
isAnchorNever(d) == FALSE

(* the base element selector, which the loop never removes *)
isAnchor(d) == d.level = 0 /\ d.type = "tag"

(* a test that lets the match count grow *)
stillMatchingAtLeast(trialValue, starting) ==
  ~trialValue.isNull /\ trialValue.count >= starting

(* "elements still match exactly (count = startingCount)" *)
stillMatching(trialValue, starting) == ~trialValue.isNull /\ trialValue.count = starting

(* a removal committed without valuing the trial set *)
removableUnchecked(cur, k, starting) ==
  /\ Contains(cur, k)
  /\ ~(selectors[k].level = 0 /\ selectors[k].type = "tag")

(* may the loop commit the removal of selectors[k] from the set cur *)
removable(cur, k, starting) ==
  /\ Contains(cur, k)
  /\ ~isAnchor(selectors[k])
  /\ stillMatching(getValue(elements, SetOf(Without(cur, k))), starting)

(* the for loop over sortedSelectors: the first descriptor whose removal   *)
(* commits; 0 when the loop ends without a commit                          *)
RECURSIVE firstRemovableFrom(_, _, _, _)
firstRemovableFrom(cur, sorted, i, starting) ==
  IF i > Len(sorted) THEN 0
  ELSE IF removable(cur, sorted[i], starting) THEN sorted[i]
  ELSE firstRemovableFrom(cur, sorted, i + 1, starting)

firstRemovable(cur, sorted, starting) == firstRemovableFrom(cur, sorted, 1, starting)

-----------------------------------------------------------------------------
(* BottomUpSelectorOptimizer.  Infinity stands for the number Infinity,    *)
(* which no match count equals.                                            *)

Infinity == 0 - 1
FirstThreshold == 16

(* a value that looks at the size of the result only *)
bottomUpValueOfCount(elems, results) ==
  IF Len(results) = 0 THEN Infinity
  ELSE IF Len(results) < Len(elems) THEN Infinity
  ELSE Len(results)

(* getValue once the selector is built and queried *)
bottomUpValueOf(elems, results) ==
  IF Len(results) = 0 THEN Infinity
  ELSE IF \E i \in 1..Len(elems) : ~Contains(results, elems[i]) THEN Infinity
  ELSE Len(results)

bottomUpGetValue(elems, selectorSet) ==
  Strict(build(selectorSet), LAMBDA selector :
    IF Text(selector) = "" THEN Infinity
    ELSE Strict(querySelectorAll(selector),
                LAMBDA results : bottomUpValueOf(elems, results)))

(* a threshold test that accepts any improvement *)
differenceAny(a, b, t) ==
  IF b = Infinity THEN FALSE
  ELSE IF a = Infinity THEN TRUE
  ELSE a - b > 0

(* a - b >= t where a and b may be Infinity: Infinity - Infinity is NaN    *)
(* and a number - Infinity is -Infinity, neither of which is >= t          *)
differenceAtLeast(a, b, t) ==
  IF b = Infinity THEN FALSE
  ELSE IF a = Infinity THEN TRUE
  ELSE a - b >= t

(* a - b > 0, likewise *)
differencePositive(a, b) ==
  IF b = Infinity THEN FALSE
  ELSE IF a = Infinity THEN TRUE
  ELSE a - b > 0

(* selectors.sort((a, b) => a.cost - b.cost): stable, cost ascending *)
RECURSIVE sortAscending(_)
sortAscending(array) ==
  IF array = <<>> THEN <<>>
  ELSE Strict(CHOOSE i \in 1..Len(array) :
                \A j \in 1..Len(array) :
                  \/ array[j].cost > array[i].cost
                  \/ (array[j].cost = array[i].cost /\ i <= j),
              LAMBDA k : <<array[k]>> \o sortAscending(WithoutIndex(array, k)))

(* a loop that skips no descriptor *)
skipsNone(best, currentSelector) == FALSE

(* "Skip parent selectors if there is no other selectors in the set yet" *)
skipsParent(best, currentSelector) == best = <<>> /\ currentSelector.level > 0

(* the for loop over selectors from index i on: the local best set and its *)
(* value when the loop ends.  trial is the trial set of the pass before.   *)
RECURSIVE forEachSelector(_, _, _, _, _)
forEachSelector(best, t, i, localBest, trial) ==
  IF i > Len(selectors) THEN localBest
  ELSE IF Contains(trial, i) THEN forEachSelector(best, t, i + 1, localBest, trial)
  ELSE IF skipsParent(best, selectors[i])
    THEN forEachSelector(best, t, i + 1, localBest, trial)
  ELSE Strict(bottomUpGetValue(elements, SetOf(Append(best, i))), LAMBDA trialValue :
         Strict(IF differenceAtLeast(localBest.value, trialValue, t)
                  THEN [set |-> Append(best, i), value |-> trialValue]
                  ELSE localBest,
                LAMBDA newBest :
                  IF trialValue = Len(elements) THEN newBest
                  ELSE forEachSelector(best, t, i + 1, newBest, Append(best, i))))

(* one pass of the while loop: what the for loop leaves as the local best  *)
localBestOf(best, value, t) ==
  forEachSelector(best, t, 1, [set |-> best, value |-> value], best)

-----------------------------------------------------------------------------
(* SelectorGenerator.getSelector, one action per statement                 *)

NoResult == <<>>
NotAnElement == "Not an SVG/HTMLElement"
NotSameDocument ==
  "All elements must belong to the same document for multi-element selector generation"

(* The arguments getSelector is called with: one value, or an array.  An   *)
(* array that holds an element of another document holds one of this       *)
(* document too.                                                           *)
Lists(n) ==
  {<<>>}
  \cup {<<xy[1], xy[2]>> : xy \in {p \in (1..n) \X (1..n) : p[1] # p[2]}}
  \cup {<<x, b>> : x \in 1..n, b \in {NotElement, Foreign}}
  \cup {<<b, x>> : x \in 1..n, b \in {NotElement, Foreign}}

InputsOf(n) ==
  {[isArray |-> FALSE, items |-> <<x>>] : x \in (1..n) \cup {NotElement}}
  \cup {[isArray |-> TRUE, items |-> l] : l \in Lists(n)}

Init ==
  /\ doc \in Docs \cup {ScenarioDoc}
  /\ input \in InputsOf(Len(doc.parent))
  /\ pc = "getSelector"
  /\ elements = <<>>
  /\ selectors = <<>>
  /\ currentSet = <<>>
  /\ sortedSelectors = <<>>
  /\ startingCount = 0
  /\ removed = <<>>
  /\ logged = <<>>
  /\ result = NoResult
  /\ error = ""
  /\ ran = <<>>
  /\ bestSelectorSet = <<>>
  /\ bestValue = Infinity
  /\ threshold = FirstThreshold

(* a validation of the first element only *)
someInvalidFirst(elems) == Len(elems) > 0 /\ elems[1] = NotElement

(* ElementValidator.assertValid over a list: is there an element it throws on *)
someInvalid(elems) == \E i \in 1..Len(elems) : ~isValid(elems[i])

(* an ownerDocument loop that starts one element late *)
differentDocumentLate(elems) ==
  /\ Len(elems) > 1
  /\ \E i \in 3..Len(elems) : ownerDocument(elems[i]) # ownerDocument(elems[1])

(* the ownerDocument loop: does some element differ from the first one's *)
differentDocument(elems) ==
  /\ Len(elems) > 1
  /\ \E i \in 2..Len(elems) : ownerDocument(elems[i]) # ownerDocument(elems[1])

Validate ==
  /\ pc = "getSelector"
  /\ elements' = input.items
  /\ IF someInvalid(input.items)
       THEN error' = NotAnElement /\ pc' = "failed"
       ELSE pc' = "checkDocument" /\ UNCHANGED error
  /\ UNCHANGED <<bestSelectorSet, bestValue, threshold>>
  /\ UNCHANGED <<doc, input, selectors, currentSet, sortedSelectors, startingCount,
                 removed, logged, result, ran>>

CheckDocument ==
  /\ pc = "checkDocument"
  /\ IF differentDocument(elements)
       THEN error' = NotSameDocument /\ pc' = "failed"
       ELSE pc' = "local" /\ UNCHANGED error
  /\ UNCHANGED <<bestSelectorSet, bestValue, threshold>>
  /\ UNCHANGED <<doc, input, elements, selectors, currentSet, sortedSelectors,
                 startingCount, removed, logged, result, ran>>

(* selectors = selectors.concat(generator.generate(normalizedElements)) *)
Generate(stage, next, generate(_)) ==
  /\ pc = stage
  /\ ran' = Append(ran, stage)
  /\ IF someInvalid(elements)
       THEN error' = NotAnElement /\ pc' = "failed" /\ UNCHANGED selectors
       ELSE selectors' = selectors \o generate(elements) /\ pc' = next /\ UNCHANGED error
  /\ UNCHANGED <<bestSelectorSet, bestValue, threshold>>
  /\ UNCHANGED <<doc, input, elements, currentSet, sortedSelectors, startingCount,
                 removed, logged, result>>

GenLocal == Generate("local", "exclusion", localGenerator)
GenExclusion == Generate("exclusion", "children", exclusionGenerator)
GenChildren == Generate("children", "sibling", childrenGenerator)
GenSibling == Generate("sibling", "parent", siblingGenerator)
GenParent == Generate("parent", "childrenExclusion", parentGenerator)
GenChildrenExclusion == Generate("childrenExclusion", "findBest", childrenExclusionGenerator)

(* findBest up to the sort: the full set is valued once; without a value   *)
(* the debug optimizer's set is logged and the full set is returned        *)
FindBestStart ==
  /\ pc = "findBest"
  /\ ran' = Append(ran, "findBest")
  /\ \E cur \in {[i \in 1..Len(selectors) |-> i]} :
     \E currentValue \in {getValue(elements, SetOf(cur))} :
     \E starting \in {IF ~currentValue.isNull THEN currentValue.count ELSE 0} :
         /\ currentSet' = cur
         /\ startingCount' = starting
         /\ IF currentValue.isNull \/ currentValue.count # starting
              THEN /\ logged' = Append(logged,
                        build(findMinimalNonMatchingSet(
                                IF elements = <<>> THEN NotElement ELSE elements[1],
                                SetOf(cur))))
                   /\ sortedSelectors' = <<>>
                   /\ pc' = "build"
              ELSE /\ sortedSelectors' = sortByCost(cur)
                   /\ pc' = "loop"
                   /\ UNCHANGED logged
  /\ UNCHANGED <<bestSelectorSet, bestValue, threshold>>
  /\ UNCHANGED <<doc, input, elements, selectors, removed, result, error>>

(* a loop that goes on whatever is left in the set *)
loopAlways(cur) == TRUE

(* while (improved && currentSet.length > 1): the test on the set *)
loopContinues(cur) == Len(cur) > 1

(* one pass of the while loop that commits a removal *)
FindBestRemove ==
  /\ pc = "loop"
  /\ loopContinues(currentSet)
  /\ LET k == firstRemovable(currentSet, sortedSelectors, startingCount) IN
     /\ k # 0
     /\ currentSet' = Without(currentSet, k)
     /\ removed' = Append(removed, k)
  /\ UNCHANGED <<bestSelectorSet, bestValue, threshold>>
  /\ UNCHANGED <<doc, input, pc, elements, selectors, sortedSelectors, startingCount,
                 logged, result, error, ran>>

(* the while loop ends: one descriptor is left, or a pass committed nothing *)
FindBestReturn ==
  /\ pc = "loop"
  /\ \/ ~loopContinues(currentSet)
     \/ firstRemovable(currentSet, sortedSelectors, startingCount) = 0
  /\ pc' = "build"
  /\ UNCHANGED <<bestSelectorSet, bestValue, threshold>>
  /\ UNCHANGED <<doc, input, elements, selectors, currentSet, sortedSelectors,
                 startingCount, removed, logged, result, error, ran>>

(* selector = this.selectorBuilder.build(bestSelectorSet); return selector *)
Build ==
  /\ pc = "build"
  /\ ran' = Append(ran, "build")
  /\ result' = build(SetOf(currentSet))
  /\ pc' = "done"
  /\ UNCHANGED <<bestSelectorSet, bestValue, threshold>>
  /\ UNCHANGED <<doc, input, elements, selectors, currentSet, sortedSelectors,
                 startingCount, removed, logged, error>>

Next ==
  \/ Validate
  \/ CheckDocument
  \/ GenLocal
  \/ GenExclusion
  \/ GenChildren
  \/ GenSibling
  \/ GenParent
  \/ GenChildrenExclusion
  \/ FindBestStart
  \/ FindBestRemove
  \/ FindBestReturn
  \/ Build

Spec == Init /\ [][Next]_vars

-----------------------------------------------------------------------------
(* TopDownSelectorOptimizer.findBest called on its own, with any target    *)
(* list and any descriptor set: what the generators write for the targets, *)
(* or a sub-array of what they write for some element of the document,     *)
(* which need not be a target.                                             *)

MaxOptNodes == 2
MaxSet == 3

generateAll(elems) ==
  localGenerator(elems) \o exclusionGenerator(elems) \o childrenGenerator(elems)
  \o siblingGenerator(elems) \o parentGenerator(elems)
  \o childrenExclusionGenerator(elems)

(* the increasing index tuples of at most k indices out of 1..n *)
RECURSIVE Picks(_, _)
Picks(n, k) ==
  IF k = 0 THEN {<<>>}
  ELSE LET shorter == Picks(n, k - 1)
           longest == {q \in shorter : Len(q) = k - 1}
       IN  shorter \cup
           {Append(qi[1], qi[2]) :
              qi \in {x \in longest \X (1..n) : x[1] = <<>> \/ x[1][Len(x[1])] < x[2]}}

SubArrays(full, k) == {MapSeq(p, LAMBDA i : full[i]) : p \in Picks(Len(full), k)}

TargetLists(n) ==
  {<<x>> : x \in 1..n}
  \cup {<<xy[1], xy[2]>> : xy \in {p \in (1..n) \X (1..n) : p[1] # p[2]}}

InitFindBest ==
  /\ doc \in {d \in Docs : Len(d.parent) <= MaxOptNodes}
  /\ input = [isArray |-> TRUE, items |-> <<>>]
  /\ pc = "call"
  /\ elements = <<>>
  /\ selectors = <<>>
  /\ currentSet = <<>>
  /\ sortedSelectors = <<>>
  /\ startingCount = 0
  /\ removed = <<>>
  /\ logged = <<>>
  /\ result = NoResult
  /\ error = ""
  /\ ran = <<>>
  /\ bestSelectorSet = <<>>
  /\ bestValue = Infinity
  /\ threshold = FirstThreshold

(* the caller: findBest(targetElements, selectors), the sub-arrays of at   *)
(* most k descriptors                                                      *)
FindBestCallUpTo(k) ==
  /\ pc = "call"
  /\ \E targetElements \in TargetLists(N), y \in Nodes :
       \E generated \in {generateAll(<<y>>)} :
       \E sels \in SubArrays(generated, k) \cup {generateAll(targetElements)} :
         /\ elements' = targetElements
         /\ input' = [isArray |-> TRUE, items |-> targetElements]
         /\ selectors' = sels
  /\ pc' = "findBest"
  /\ UNCHANGED <<bestSelectorSet, bestValue, threshold>>
  /\ UNCHANGED <<doc, currentSet, sortedSelectors, startingCount, removed, logged,
                 result, error, ran>>

FindBestCall == FindBestCallUpTo(MaxSet)

NextFindBest ==
  \/ FindBestCall
  \/ FindBestStart
  \/ FindBestRemove
  \/ FindBestReturn

SpecFindBest == InitFindBest /\ [][NextFindBest]_vars

(* findBest once called: it is sequential code that has no way of pausing  *)
(* between two statements, so a step of it that can be taken is taken.     *)
MaxFairSet == 1

FindBestCallFair == FindBestCallUpTo(MaxFairSet)

FindBestStep == FindBestStart \/ FindBestRemove \/ FindBestReturn

NextFindBestFair ==
  \/ FindBestCallFair
  \/ FindBestStart
  \/ FindBestRemove
  \/ FindBestReturn

SpecFindBestFair ==
  InitFindBest /\ [][NextFindBestFair]_vars /\ WF_vars(FindBestStep)

-----------------------------------------------------------------------------
(* BottomUpSelectorOptimizer.findBest called on its own, with the same     *)
(* arguments, and the two optimizers side by side.                         *)

MaxBottomUpSet == 2

BottomUpCall ==
  /\ pc = "call"
  /\ \E targetElements \in TargetLists(N), y \in Nodes :
       \E generated \in {generateAll(<<y>>)} :
       \E sels \in SubArrays(generated, MaxBottomUpSet) \cup {generateAll(targetElements)} :
         /\ elements' = targetElements
         /\ input' = [isArray |-> TRUE, items |-> targetElements]
         /\ selectors' = sels
  /\ pc' = "bottomUp"
  /\ UNCHANGED <<bestSelectorSet, bestValue, threshold>>
  /\ UNCHANGED <<doc, currentSet, sortedSelectors, startingCount, removed, logged,
                 result, error, ran>>

(* findBest up to the first threshold: the array it was given is sorted *)
BottomUpStart ==
  /\ pc = "bottomUp"
  /\ selectors' = sortAscending(selectors)
  /\ bestSelectorSet' = <<>>
  /\ bestValue' = Infinity
  /\ threshold' = FirstThreshold
  /\ pc' = "bottomUpLoop"
  /\ UNCHANGED <<doc, input, elements, currentSet, sortedSelectors, startingCount,
                 removed, logged, result, error, ran>>

(* a pass of the while loop that commits its local best; findBest returns  *)
(* when that set matches as many elements as there are targets             *)
BottomUpCommit ==
  /\ pc = "bottomUpLoop"
  /\ \E localBest \in {localBestOf(bestSelectorSet, bestValue, threshold)} :
       /\ differencePositive(bestValue, localBest.value)
       /\ bestSelectorSet' = localBest.set
       /\ bestValue' = localBest.value
       /\ pc' = IF localBest.value = Len(elements) THEN "bottomUpDone" ELSE "bottomUpLoop"
  /\ UNCHANGED <<doc, input, elements, selectors, currentSet, sortedSelectors,
                 startingCount, removed, logged, result, error, ran, threshold>>

(* a pass that commits nothing ends the while loop: the threshold is       *)
(* halved, and after the threshold 1 findBest returns its best set         *)
BottomUpNextThreshold ==
  /\ pc = "bottomUpLoop"
  /\ \E localBest \in {localBestOf(bestSelectorSet, bestValue, threshold)} :
       ~differencePositive(bestValue, localBest.value)
  /\ IF threshold \div 2 >= 1
       THEN threshold' = threshold \div 2 /\ UNCHANGED pc
       ELSE pc' = "bottomUpDone" /\ UNCHANGED threshold
  /\ UNCHANGED <<doc, input, elements, selectors, currentSet, sortedSelectors,
                 startingCount, removed, logged, result, error, ran,
                 bestSelectorSet, bestValue>>

TopDownCall == FindBestCallUpTo(MaxBottomUpSet)

NextOptimizers ==
  \/ TopDownCall
  \/ FindBestStart
  \/ FindBestRemove
  \/ FindBestReturn
  \/ BottomUpCall
  \/ BottomUpStart
  \/ BottomUpCommit
  \/ BottomUpNextThreshold

SpecOptimizers == InitFindBest /\ [][NextOptimizers]_vars

-----------------------------------------------------------------------------
(* SelectorBuilder.build called on its own, with any descriptor set *)

MaxLen == 3
MaxLevel == 3

BuildFragments ==
  {<<"tag", "div">>, <<"id", "#a">>, <<"class", ".c">>, <<"class", ".d">>,
   <<"attr", "[x]">>, <<"pseudo", ":first-child">>}

BuildPool ==
  {Descriptor(0, l, f[1], f[2]) : l \in (-1)..MaxLevel, f \in BuildFragments}

RECURSIVE SeqsUpTo(_, _)
SeqsUpTo(S, k) ==
  IF k = 0 THEN {<<>>}
  ELSE LET shorter == SeqsUpTo(S, k - 1)
           longest == {q \in shorter : Len(q) = k - 1}
       IN  shorter \cup {Append(qe[1], qe[2]) : qe \in longest \X S}

InitBuild ==
  /\ doc \in {d \in Docs : Len(d.parent) = 1 /\ d.node[1] = Plain}
  /\ input = [isArray |-> TRUE, items |-> <<>>]
  /\ elements = <<>>
  /\ selectors \in SeqsUpTo(BuildPool, MaxLen)
  /\ currentSet = [i \in 1..Len(selectors) |-> i]
  /\ pc = "build"
  /\ sortedSelectors = <<>>
  /\ startingCount = 0
  /\ removed = <<>>
  /\ logged = <<>>
  /\ result = NoResult
  /\ error = ""
  /\ ran = <<>>
  /\ bestSelectorSet = <<>>
  /\ bestValue = Infinity
  /\ threshold = FirstThreshold

NextBuild == Build

SpecBuild == InitBuild /\ [][NextBuild]_vars

-----------------------------------------------------------------------------
(* LocalSelectorGenerator.generate called on its own, on elements whose    *)
(* ids, classes and attribute names include blacklisted ones and near      *)
(* misses of the patterns.                                                 *)

ID_LOTTIE == <<"l", "o", "t", "t", "i", "e", "-", "p", "l", "a", "y", "e", "r", "-", "3">>
ID_SELF == <<"s", "e", "l", "e", "c", "t", "o", "r", "-", "g", "e", "n", "e", "r", "a", "t", "o", "r">>
ID_SELF_2 == <<"s", "e", "l", "e", "c", "t", "o", "r", "-", "g", "e", "n", "e", "r", "a", "t", "o", "r", "-", "2">>
CLASS_NG == <<"n", "g", "-", "s", "c", "o", "p", "e">>
CLASS_APP_NG == <<"a", "p", "p", "-", "n", "g", "-", "x">>
CLASS_TW == <<"t", "w", "-", "1">>
CLASS_PX == <<"w", "-", "[", "1", "p", "x", "]">>
CLASS_PLAIN_NG == <<"n", "g">>
ATTR_XMLNS == <<"x", "m", "l", "n", "s">>
ATTR_XLINK == <<"x", "m", "l", "n", "s", ":", "x", "l", "i", "n", "k">>
ATTR_NG_IF == <<"n", "g", "-", "i", "f">>
ATTR_X == <<"x">>
ATTR_STYLE == <<"s", "t", "y", "l", "e">>

LocalIds == {<<>>, ID_A, ID_LOTTIE, ID_SELF, ID_SELF_2}
LocalClassLists ==
  {<<>>, <<CLASS_C>>, <<CLASS_NG>>, <<CLASS_C, CLASS_TW>>, <<CLASS_PX, CLASS_C>>,
    <<CLASS_APP_NG, CLASS_PLAIN_NG>>}
LocalAttrLists ==
  {<<>>, <<ATTR_XMLNS>>, <<ATTR_X>>, <<ATTR_XLINK, ATTR_X>>, <<ATTR_NG_IF>>,
    <<ATTR_STYLE, ATTR_X>>}

LocalKinds ==
  {[tag |-> DIV, id |-> i, cls |-> c, att |-> a, txt |-> FALSE] :
     i \in LocalIds, c \in LocalClassLists, a \in LocalAttrLists}

MaxLocalNodes == 2

InitLocal ==
  /\ \E n \in 1..MaxLocalNodes :
       \E par \in Shapes(n), nd \in [1..n -> LocalKinds] :
         doc = [parent |-> par, node |-> nd]
  /\ input \in {[isArray |-> TRUE, items |-> l] : l \in TargetLists(Len(doc.parent))}
  /\ elements = input.items
  /\ pc = "local"
  /\ selectors = <<>>
  /\ currentSet = <<>>
  /\ sortedSelectors = <<>>
  /\ startingCount = 0
  /\ removed = <<>>
  /\ logged = <<>>
  /\ result = NoResult
  /\ error = ""
  /\ ran = <<>>
  /\ bestSelectorSet = <<>>
  /\ bestValue = Infinity
  /\ threshold = FirstThreshold

NextLocal == GenLocal

SpecLocal == InitLocal /\ [][NextLocal]_vars

-----------------------------------------------------------------------------
(* What the properties below speak of *)

Targets == Range(elements)
Matched(toks) == Range(querySelectorAll(toks))
MatchCount(toks) == Len(querySelectorAll(toks))

(* findBest has returned: its result is the set currentSet stands for *)
Returned == pc \in {"build", "done"}
ReturnedSet == SetOf(currentSet)

(* the full input set, built and queried once *)
FullCount == MatchCount(build(selectors))
FullSetExact == Matched(build(selectors)) = Targets /\ FullCount = Len(elements)

HasInvalidTarget == \E i \in DOMAIN input.items : input.items[i] = NotElement
AllValidTargets == \A i \in DOMAIN input.items : input.items[i] # NotElement
ParentOrForeign(e) == IF e = Foreign THEN Foreign ELSE parentElement(e)
CommonParent ==
  \A i \in DOMAIN input.items :
    ParentOrForeign(input.items[i]) = ParentOrForeign(input.items[1])
SameDocument ==
  \A i \in DOMAIN input.items : (input.items[i] = Foreign) = (input.items[1] = Foreign)
NothingGenerated == selectors = <<>> /\ ran = <<>> /\ result = NoResult
Failed == pc = "failed" /\ error # ""

-----------------------------------------------------------------------------
(* C1: round-trip uniqueness.  When getSelector has returned for a single  *)
(* target element x, querying the document with the returned selector      *)
(* gives exactly x.                                                        *)
C1_RoundTripUnique ==
  (pc = "done" /\ ~input.isArray) => querySelectorAll(result) = <<input.items[1]>>

C3_ResultMatchesTargetCount ==
  Returned => MatchCount(build(ReturnedSet)) = Len(elements)

(* C3, amended: when the full input set matches exactly the targets, the   *)
(* set findBest returns builds to a selector that matches as many nodes as *)
(* there are targets.                                                      *)
C3_CountKeptWhenFullSetExact ==
  (Returned /\ FullSetExact) => MatchCount(build(ReturnedSet)) = Len(elements)

C3_Witness == Returned /\ FullSetExact /\ removed # <<>>

(* C4: degenerate input.  When the full input set does not match exactly   *)
(* as many nodes as there are targets, findBest performs no reduction and  *)
(* returns the full input set unchanged, and raises no error.              *)
C4_DegenerateReturnsFullSet ==
  (pc \in {"loop", "build", "done"} /\ FullCount # Len(elements))
    => /\ removed = <<>>
       /\ error = ""
       /\ (Returned => ReturnedSet = selectors)

(* C5: minimality.  After reduction, removing any descriptor other than a  *)
(* level-0 tag descriptor from the returned set changes the match count.   *)
C5_Minimal ==
  (Returned /\ logged = <<>>)
    => \A i \in DOMAIN currentSet :
         \/ selectors[currentSet[i]].level = 0 /\ selectors[currentSet[i]].type = "tag"
         \/ MatchCount(build(SetOf(WithoutIndex(currentSet, i))))
              # MatchCount(build(ReturnedSet))

(* C5, amended: after reduction, removing any descriptor other than a      *)
(* level-0 tag descriptor from the returned set changes the match count,   *)
(* unless that descriptor is the only one left in the set.                 *)
C5_MinimalUnlessSingle ==
  (Returned /\ logged = <<>> /\ Len(currentSet) > 1)
    => \A i \in DOMAIN currentSet :
         \/ selectors[currentSet[i]].level = 0 /\ selectors[currentSet[i]].type = "tag"
         \/ MatchCount(build(SetOf(WithoutIndex(currentSet, i))))
              # MatchCount(build(ReturnedSet))

C5_Witness ==
  /\ Returned /\ logged = <<>> /\ removed # <<>> /\ Len(currentSet) > 1
  /\ \E i \in DOMAIN currentSet : selectors[currentSet[i]].type # "tag"

(* C6: a call with a target that is no element fails before any generator, *)
(* query or optimizer step runs and returns no selector; one invalid       *)
(* target among several is enough.                                         *)
C6_InvalidTargetFailsFirst ==
  HasInvalidTarget
    => /\ pc \in {"getSelector", "failed"}
       /\ NothingGenerated
       /\ (pc = "failed" => error = NotAnElement)

C6_Witness ==
  /\ Failed /\ Len(input.items) = 2
  /\ input.items[1] \in Nodes /\ input.items[2] = NotElement

C8_EmptyListFails ==
  (input.isArray /\ input.items = <<>>)
    => /\ pc # "done"
       /\ result = NoResult
       /\ (pc = "failed" => error # "")

-----------------------------------------------------------------------------
(* The parts of a built selector: the compounds between its combinators,   *)
(* numbered from the left, and the groups of the set it was built from.    *)

CombinatorPositions(toks) == SortedSeq({i \in 1..Len(toks) : isCombinator(toks[i])})
Compound(toks, j) ==
  LET cuts == <<0>> \o CombinatorPositions(toks) \o <<Len(toks) + 1>> IN
  SubSeq(toks, cuts[j] + 1, cuts[j + 1] - 1)

AncestorLevels(sels) == SortedSeq({l \in {sels[i].level : i \in DOMAIN sels} : l > 0})
LevelGroup(sels, l) == SelectSeq(sels, LAMBDA d : d.level = l)
OwnGroup(sels) == SelectSeq(sels, LAMBDA d : d.level <= 0)

(* the compound holds the fragments of the group, each as often, in any order *)
SameFragments(compound, group) ==
  /\ Len(compound) = Len(group)
  /\ \A i \in DOMAIN group :
       Cardinality({j \in DOMAIN compound : compound[j] = group[i].selector})
         = Cardinality({j \in DOMAIN group : group[j].selector = group[i].selector})

TypeRank(t) ==
  CASE t = "tag" -> 1 [] t = "id" -> 2 [] t = "class" -> 3 [] t = "attr" -> 4
    [] t = "pseudo" -> 5

(* the fragments of the group by type rank, equal ranks in input order *)
InTypeOrder(group) ==
  IF group = <<>> THEN <<>>
  ELSE LET n == Len(group)
           order == CHOOSE f \in Permutations(1..n) :
                      \A a \in 1..n, b \in 1..n :
                        a < b => \/ TypeRank(group[f[a]].type) < TypeRank(group[f[b]].type)
                                 \/ /\ group[f[a]].type = group[f[b]].type
                                    /\ f[a] < f[b]
       IN  [i \in 1..n |-> group[order[i]].selector]

(* C9: level-combinator law.  The built selector has one compound per      *)
(* ancestor level, highest level leftmost, then the own compound; a level  *)
(* that is one greater than the next lower level present (or than 0) is    *)
(* followed by the child combinator, any other by the descendant one.      *)
C9_LevelCombinatorLaw ==
  pc = "done" =>
    LET ls == AncestorLevels(ReturnedSet)
        k == Len(ls)
        cps == CombinatorPositions(result)
    IN  /\ Len(cps) = k
        /\ \A j \in 1..k :
             LET level == ls[k + 1 - j]
                 prev == IF k + 1 - j = 1 THEN 0 ELSE ls[k - j]
             IN  /\ result[cps[j]] = (IF level = prev + 1 THEN " > " ELSE " ")
                 /\ SameFragments(Compound(result, j), LevelGroup(ReturnedSet, level))
        /\ IF OwnGroup(ReturnedSet) = <<>>
             THEN Compound(result, k + 1) = <<"*">>
             ELSE SameFragments(Compound(result, k + 1), OwnGroup(ReturnedSet))

C9_Witness ==
  /\ pc = "done"
  /\ AncestorLevels(ReturnedSet) = <<1, 3>>
  /\ OwnGroup(ReturnedSet) # <<>>
  /\ Len(result) = 5 /\ result[2] = " " /\ result[4] = " > "

(* C10: type order.  Every compound of the built selector holds the        *)
(* fragments of its group in the order tag, id, class, attr, pseudo, and   *)
(* fragments of one type in their input order.                             *)
C10_TypeOrder ==
  pc = "done" =>
    LET ls == AncestorLevels(ReturnedSet)
        k == Len(ls)
    IN  /\ \A j \in 1..k :
             Compound(result, j) = InTypeOrder(LevelGroup(ReturnedSet, ls[k + 1 - j]))
        /\ OwnGroup(ReturnedSet) # <<>>
             => Compound(result, k + 1) = InTypeOrder(OwnGroup(ReturnedSet))

C10_Witness ==
  /\ pc = "done"
  /\ \E a \in DOMAIN selectors, b \in DOMAIN selectors :
       /\ a < b /\ selectors[a].level = selectors[b].level
       /\ TypeRank(selectors[a].type) > TypeRank(selectors[b].type)
  /\ \E a \in DOMAIN selectors, b \in DOMAIN selectors :
       /\ a < b /\ selectors[a].level = selectors[b].level
       /\ selectors[a].type = selectors[b].type
       /\ selectors[a].selector # selectors[b].selector

-----------------------------------------------------------------------------
(* C11: a descriptor set without a descriptor of level <= 0 builds to a    *)
(* selector whose own part is "*": the empty set builds to "*", and a set  *)
(* of ancestor-level descriptors only builds to a selector that ends in    *)
(* a combinator followed by "*".                                           *)
C11_EmptyOwnIsUniversal ==
  /\ build(<<>>) = <<"*">>
  /\ (pc = "done" /\ OwnGroup(ReturnedSet) = <<>>)
       => /\ result # <<>>
          /\ result[Len(result)] = "*"
          /\ ReturnedSet = <<>> => result = <<"*">>
          /\ ReturnedSet # <<>> => /\ Len(result) >= 3
                                   /\ isCombinator(result[Len(result) - 1])

C11_Witness ==
  /\ pc = "done"
  /\ ReturnedSet # <<>>
  /\ OwnGroup(ReturnedSet) = <<>>
  /\ result[Len(result)] = "*"

-----------------------------------------------------------------------------
(* The ids, classes and attribute names that occur in the document *)
IdsInDoc == {idOf(x) : x \in Nodes} \ {<<>>}
ClassesInDoc == UNION {Range(classList(x)) : x \in Nodes}
AttrsInDoc == UNION {Range(attributes(x)) : x \in Nodes}
LocalHasRun == ran = <<"local">> /\ pc = "exclusion"
Emitted(type, fragment) ==
  \E i \in DOMAIN selectors : selectors[i].type = type /\ selectors[i].selector = fragment

(* C12: blacklist exclusion.  The Local generator emits no id, class or    *)
(* attr descriptor for a value that matches a pattern of the blacklist of  *)
(* its kind; a target with id "lottie-player-3" gets no id descriptor and  *)
(* an attribute named "xmlns" gets no attr descriptor.                     *)
C12_BlacklistedNeverEmitted ==
  LocalHasRun =>
    /\ \A v \in IdsInDoc :
         BlacklistMatches(v, BLACKLIST_IDS) => ~Emitted("id", "#" \o Str(CSSescape(v)))
    /\ \A v \in ClassesInDoc :
         BlacklistMatches(v, BLACKLIST_CLASSES) => ~Emitted("class", "." \o Str(CSSescape(v)))
    /\ \A v \in AttrsInDoc :
         BlacklistMatches(v, BLACKLIST_ATTRIBUTES)
           => ~Emitted("attr", "[" \o Str(CSSescape(v)) \o "]")
    /\ (\E t \in Targets : idOf(t) = ID_LOTTIE)
         => ~\E i \in DOMAIN selectors : selectors[i].type = "id"
    /\ ~Emitted("attr", "[xmlns]")

C12_Witness ==
  /\ LocalHasRun
  /\ \E t \in Targets :
       /\ idOf(t) = ID_LOTTIE
       /\ hasAttribute(t, ATTR_XMLNS)
       /\ Contains(classList(t), CLASS_NG)
  /\ Emitted("tag", "div") /\ Emitted("attr", "[id]")

-----------------------------------------------------------------------------
(* Positional descriptors: what the Sibling generator writes about the     *)
(* place of an element among its siblings, at the element's level or, by   *)
(* way of the Parent generator, at an ancestor's.                          *)
IsPositional(d) ==
  Sem(d.selector).k \in {"first-child", "last-child", "only-child", "nth-child",
                         "nth-last-child", "after", "before"}

OwnTag(x) == <<Str(localName(x))>>

(* a level-0 class descriptor that, with the tag anchor, singles out the   *)
(* target and is cheaper than every positional descriptor generated        *)
Discriminates(d) ==
  /\ d.level = 0 /\ d.type = "class"
  /\ Matched(OwnTag(elements[1]) \o <<d.selector>>) = {elements[1]}
  /\ \A i \in DOMAIN selectors : IsPositional(selectors[i]) => selectors[i].cost > d.cost

SingleTargetDone == pc = "done" /\ ~input.isArray /\ Len(elements) = 1

-----------------------------------------------------------------------------
(* the level-0 tag descriptors of the array findBest was called with *)
TagAnchors == {k \in DOMAIN selectors : selectors[k].level = 0 /\ selectors[k].type = "tag"}
InFindBest == pc \in {"loop", "build", "done"}

(* C14: tag anchor invariant.  Every level-0 tag descriptor of the input   *)
(* of findBest is in the current set at every step and in the set          *)
(* returned, and no committed removal is that of such a descriptor.        *)
C14_TagAnchorStays ==
  InFindBest =>
    /\ \A k \in TagAnchors : Contains(currentSet, k)
    /\ \A i \in DOMAIN removed : removed[i] \notin TagAnchors

C14_Witness ==
  /\ Returned /\ logged = <<>> /\ removed # <<>>
  /\ Len(currentSet) > 1
  /\ \E k \in TagAnchors :
       stillMatching(getValue(elements, SetOf(Without(currentSet, k))), startingCount)

-----------------------------------------------------------------------------
(* the order the loop scans: every descriptor of the input once, no        *)
(* descriptor before a dearer one                                          *)
IsCostDescending(sorted) ==
  /\ Len(sorted) = Len(selectors)
  /\ Range(sorted) = DOMAIN selectors
  /\ \A a \in DOMAIN sorted, b \in DOMAIN sorted :
       a < b => selectors[sorted[a]].cost >= selectors[sorted[b]].cost

(* removing selectors[k] from cur is allowed and leaves a set that matches *)
(* as many nodes as there are targets                                      *)
KeepsTargetCount(cur, k) ==
  /\ Contains(cur, k)
  /\ k \notin TagAnchors
  /\ MatchCount(build(SetOf(Without(cur, k)))) = Len(elements)

(* C15: greedy order.  The loop scans one cost-descending order computed   *)
(* from the full set; every committed removal takes out the first          *)
(* descriptor of that order that is in the current set, is no level-0 tag  *)
(* and whose removal leaves the match count equal to the number of         *)
(* targets, so that no descriptor is removed while a dearer one that       *)
(* could be removed is in the set.                                         *)
C15_GreedyOrder ==
  [][(pc = "loop")
       => /\ IsCostDescending(sortedSelectors)
          /\ sortedSelectors' = sortedSelectors
          /\ removed' # removed
               => \E p \in DOMAIN sortedSelectors :
                    /\ removed' = Append(removed, sortedSelectors[p])
                    /\ currentSet' = Without(currentSet, sortedSelectors[p])
                    /\ KeepsTargetCount(currentSet, sortedSelectors[p])
                    /\ \A q \in 1..(p - 1) :
                         ~KeepsTargetCount(currentSet, sortedSelectors[q])]_vars

-----------------------------------------------------------------------------
(* C16: termination.  Every call of findBest returns.  Each pass of the    *)
(* outer loop either commits one removal, which makes the current set one  *)
(* descriptor shorter, or ends the loop; a call with n descriptors commits *)
(* at most n - 1 removals; the loop ends with one descriptor left or with  *)
(* no descriptor of the set whose removal could be committed.              *)
C16_Terminates ==
  /\ (pc = "findBest") ~> Returned
  /\ [](InFindBest
          => /\ Len(currentSet) + Len(removed) = Len(selectors)
             /\ selectors # <<>> => Len(removed) <= Len(selectors) - 1
             /\ (Returned /\ logged = <<>>)
                  => \/ Len(currentSet) <= 1
                     \/ \A k \in Range(currentSet) :
                          ~removable(currentSet, k, startingCount))
  /\ [][(pc = "loop")
          => \/ /\ pc' = "loop"
                /\ Len(currentSet') = Len(currentSet) - 1
                /\ Range(currentSet') \subseteq Range(currentSet)
                /\ Len(removed') = Len(removed) + 1
             \/ /\ pc' = "build"
                /\ currentSet' = currentSet
                /\ removed' = removed]_vars

C16_Witness ==
  /\ Returned /\ logged = <<>>
  /\ Len(selectors) >= 3
  /\ Len(removed) = Len(selectors) - 1

-----------------------------------------------------------------------------
(* C17: match-count contract.  Both getValue report a set as invalid       *)
(* (null top-down, Infinity bottom-up) when its selector matches nothing   *)
(* or misses a target, also when it matches as many elements as there are  *)
(* targets; and every set an optimizer has committed matches all targets.  *)
(* The sets looked at are those the optimizers value in the state: the     *)
(* full set, the current and best sets, and their one-step trials.         *)
AllIndices == [i \in 1..Len(selectors) |-> i]
TrialSets ==
  {AllIndices, currentSet, bestSelectorSet}
  \cup {Without(currentSet, k) : k \in Range(currentSet)}
  \cup {Append(bestSelectorSet, i) : i \in 1..Len(selectors)}
  \cup {<<i>> : i \in 1..Len(selectors)}
MissesTarget(results) == Len(results) = 0 \/ ~(Targets \subseteq Range(results))
TopDownCommitted == pc = "loop" \/ (Returned /\ logged = <<>>)
BottomUpCommitted == pc \in {"bottomUpLoop", "bottomUpDone"} /\ bestSelectorSet # <<>>

C17_MatchCountContract ==
  /\ \A idxs \in TrialSets :
       \E set \in {SetOf(idxs)} :
       \E results \in {querySelectorAll(build(set))} :
       \E topDown \in {getValue(elements, set)} :
       \E bottomUp \in {bottomUpGetValue(elements, set)} :
         IF MissesTarget(results)
           THEN topDown = Null /\ bottomUp = Infinity
           ELSE /\ topDown.isNull = FALSE
                /\ topDown.count = Len(results)
                /\ bottomUp = Len(results)
  /\ TopDownCommitted => Targets \subseteq Matched(build(SetOf(currentSet)))
  /\ BottomUpCommitted => Targets \subseteq Matched(build(SetOf(bestSelectorSet)))

(* a bottom-up call has committed a set, and one of the descriptors it was *)
(* given matches as many elements as there are targets but not the targets *)
C17_Witness ==
  /\ BottomUpCommitted
  /\ \E i \in 1..Len(selectors) :
       \E results \in {querySelectorAll(build(<<selectors[i]>>))} :
         /\ selectors[i].level = 0
         /\ Len(results) = Len(elements)
         /\ ~(Targets \subseteq Range(results))


-----------------------------------------------------------------------------
(* C18: optimizer purity.  From the call of either findBest to its return  *)
(* the array the caller passed stays as it was: the same descriptors, with *)
(* the same fields, in the same order.                                     *)
InOptimizer == pc \in {"findBest", "loop", "bottomUp", "bottomUpLoop"}

C18_ArrayUnchanged == [][InOptimizer => selectors' = selectors]_vars

(* the same of the top-down optimizer alone *)
C18_TopDownArrayUnchanged ==
  [][(pc \in {"findBest", "loop"}) => selectors' = selectors]_vars


-----------------------------------------------------------------------------
(* C19: multi-target intersection.  What a generator appends for the       *)
(* targets t1..tn is the per-node set of t1 without the descriptors that   *)
(* lack an identical one (Local: same level, type and selector; the other  *)
(* generators: same selector) in the per-node set of some ti: a descriptor *)
(* is appended iff it is in t1's set and has an identical one in every     *)
(* set, and for one target what is appended is its per-node set.           *)
GeneratorStages ==
  {"local", "exclusion", "children", "sibling", "parent", "childrenExclusion"}

PerNodeSets(stage) ==
  CASE stage = "local" -> MapSeq(elements, localOf)
    [] stage = "exclusion" -> MapSeq(elements, exclusionOf)
    [] stage = "children" -> MapSeq(elements, LAMBDA element : processChildren(element, 0))
    [] stage = "sibling" -> MapSeq(elements, siblingOf)
    [] stage = "parent" -> MapSeq(elements, parentOf)
    [] stage = "childrenExclusion" -> MapSeq(elements, childrenExclusionOf)

Identical(stage, d, e) ==
  IF stage = "local"
    THEN d.level = e.level /\ d.type = e.type /\ d.selector = e.selector
    ELSE d.selector = e.selector

InEverySet(stage, d, sets) ==
  \A i \in 1..Len(sets) : \E e \in Range(sets[i]) : Identical(stage, d, e)

IsIntersection(stage, appended, sets) ==
  IF Len(sets) = 0 THEN appended = <<>>
  ELSE /\ \A d \in Range(appended) : d \in Range(sets[1]) /\ InEverySet(stage, d, sets)
       /\ \A d \in Range(sets[1]) : InEverySet(stage, d, sets) => d \in Range(appended)
       /\ Len(sets) = 1 => appended = sets[1]

C19_Intersection ==
  [][(pc \in GeneratorStages /\ pc' # "failed") =>
       \E sets \in {PerNodeSets(pc)} :
       \E appended \in {SubSeq(selectors', Len(selectors) + 1, Len(selectors'))} :
         /\ selectors' = selectors \o appended
         /\ IsIntersection(pc, appended, sets)]_vars

(* the generators have run for two targets; of the first one's local set   *)
(* one descriptor was appended and another, which the second lacks, not    *)
C19_Witness ==
  /\ pc = "findBest"
  /\ Len(elements) = 2
  /\ \E d \in Range(localOf(elements[1])) : d \in Range(selectors)
  /\ \E d \in Range(localOf(elements[1])) :
       d \notin Range(localOf(elements[2])) /\ d \notin Range(selectors)


-----------------------------------------------------------------------------
(* C20: exclusion soundness.  Once the Local Exclusion generator has run,  *)
(* every descriptor of a target's exclusion set names an id, a class or an *)
(* attribute that a co-matching node other than the target has and the     *)
(* target has not, and the target satisfies the descriptor.                *)
CoMatching(x) == Range(querySelectorAll(build(localGenerator(<<x>>)))) \ {x}

NamesExtraOf(x, d) ==
  \E y \in CoMatching(x) :
    \/ /\ idOf(y) # <<>>
       /\ idOf(y) # idOf(x)
       /\ d.selector = ":not(#" \o Str(CSSescape(idOf(y))) \o ")"
    \/ \E c \in Range(classList(y)) :
         /\ ~Contains(classList(x), c)
         /\ d.selector = ":not(." \o Str(CSSescape(c)) \o ")"
    \/ \E a \in Range(attributes(y)) :
         /\ ~hasAttribute(x, a)
         /\ d.selector = ":not([" \o Str(CSSescape(a)) \o "])"

ExclusionHasRun == \E i \in 1..Len(ran) : ran[i] = "exclusion"

C20_ExclusionSound ==
  (ExclusionHasRun /\ pc # "failed") =>
    \A x \in Targets : \A d \in Range(exclusionOf(x)) :
      /\ NamesExtraOf(x, d)
      /\ Holds(x, Sem(d.selector))

-----------------------------------------------------------------------------
(* C21: attr descriptors of the Local generator.  For a single target, no  *)
(* attr descriptor is written for the attributes "id", "style" and         *)
(* "class", none for a blacklisted name, and exactly one "[name]" for each *)
(* other attribute the target has.                                         *)
IGNORED_ATTRIBUTES == {ATTR_ID, ATTR_STYLE}

AttrDescriptorCount(name) ==
  Cardinality({i \in DOMAIN selectors :
                 /\ selectors[i].type = "attr"
                 /\ selectors[i].selector = "[" \o Str(CSSescape(name)) \o "]"})

C21_AttrDescriptors ==
  (LocalHasRun /\ Len(elements) = 1) =>
    \A name \in Range(attributes(elements[1])) \cup IGNORED_ATTRIBUTES \cup {ATTR_CLASS} :
      AttrDescriptorCount(name) =
        IF name \in IGNORED_ATTRIBUTES \cup {ATTR_CLASS} THEN 0
        ELSE IF BlacklistMatches(name, BLACKLIST_ATTRIBUTES) THEN 0
        ELSE 1

(* the same with the ignored names left to the code: "id" and "style" get  *)
(* an attr descriptor like any other name, "class" gets none               *)
C21_AttrDescriptorsAsWritten ==
  (LocalHasRun /\ Len(elements) = 1) =>
    \A name \in Range(attributes(elements[1])) \cup {ATTR_CLASS} :
      AttrDescriptorCount(name) =
        IF name = ATTR_CLASS THEN 0
        ELSE IF BlacklistMatches(name, BLACKLIST_ATTRIBUTES) THEN 0
        ELSE 1

-----------------------------------------------------------------------------
(* C22: sibling positions.  For a single target at position p among the n  *)
(* element children of its parent, once the Sibling generator has run the  *)
(* own-level descriptors hold ":first-child" iff p = 1, ":last-child" iff  *)
(* p = n, ":only-child" iff n = 1, ":nth-child(k)" iff k = p > 1 and       *)
(* ":nth-last-child(k)" iff 1 < p < n and k = n - p + 1; and each of them  *)
(* is true of the target.                                                  *)
SiblingHasRun == pc # "failed" /\ \E i \in 1..Len(ran) : ran[i] = "sibling"

EmittedOwn(fragment) ==
  \E i \in DOMAIN selectors :
    /\ selectors[i].level = 0
    /\ selectors[i].type = "pseudo"
    /\ selectors[i].selector = fragment

PositionKinds == {"first-child", "last-child", "only-child", "nth-child", "nth-last-child"}

C22_SiblingPositions ==
  (SiblingHasRun /\ Len(elements) = 1) =>
    \E x \in {elements[1]} : \E p \in {childIndex(x)} : \E n \in {childCount(x)} :
      /\ EmittedOwn(":first-child") <=> p = 1
      /\ EmittedOwn(":last-child") <=> p = n
      /\ EmittedOwn(":only-child") <=> n = 1
      /\ \A k \in UCounts :
           /\ EmittedOwn(":nth-child(" \o ToString(k) \o ")") <=> (p > 1 /\ k = p)
           /\ EmittedOwn(":nth-last-child(" \o ToString(k) \o ")")
                <=> (1 < p /\ p < n /\ k = n - p + 1)
      /\ \A i \in DOMAIN selectors :
           (selectors[i].level = 0 /\ Sem(selectors[i].selector).k \in PositionKinds)
             => Holds(x, Sem(selectors[i].selector))

(* a target in the middle of three children, with both counted positions *)
C22_Witness ==
  /\ SiblingHasRun
  /\ Len(elements) = 1
  /\ childIndex(elements[1]) = 2
  /\ childCount(elements[1]) = 3
  /\ EmittedOwn(":nth-child(2)")
  /\ EmittedOwn(":nth-last-child(2)")

-----------------------------------------------------------------------------
(* C23: sibling costs and the distance from the edge.  Among the children  *)
(* of one parent, the descriptor counted from the start (":first-child",   *)
(* ":nth-child(p)") of an element is never more expensive than that of an  *)
(* element farther from the start, and likewise for the one counted from   *)
(* the end (":last-child", ":nth-last-child(k)"); ":first-child" costs the *)
(* same whatever the number of siblings that follow, and ":last-child"     *)
(* whatever the number that precede.                                       *)
StartKinds == {"first-child", "nth-child"}
EndKinds == {"last-child", "nth-last-child"}

HasKind(x, kinds) ==
  \E i \in DOMAIN siblingOf(x) : Sem(siblingOf(x)[i].selector).k \in kinds

CostOfKind(x, kinds) ==
  siblingOf(x)[CHOOSE i \in DOMAIN siblingOf(x) :
                 Sem(siblingOf(x)[i].selector).k \in kinds].cost

C23_CostByDistance ==
  SiblingHasRun =>
    \A x \in Nodes, y \in Nodes :
      /\ (parentElement(x) = parentElement(y) /\ childIndex(x) < childIndex(y))
           => /\ CostOfKind(x, StartKinds) <= CostOfKind(y, StartKinds)
              /\ (HasKind(x, EndKinds) /\ HasKind(y, EndKinds))
                   => CostOfKind(y, EndKinds) <= CostOfKind(x, EndKinds)
      /\ (childIndex(x) = 1 /\ childIndex(y) = 1)
           => CostOfKind(x, StartKinds) = CostOfKind(y, StartKinds)
      /\ (childIndex(x) = childCount(x) /\ childIndex(y) = childCount(y))
           => CostOfKind(x, EndKinds) = CostOfKind(y, EndKinds)

(* the part that holds: the cost of ":nth-child(p)" grows with p and the   *)
(* cost of ":nth-last-child(k)" with k                                     *)
C23_CountedCostByDistance ==
  SiblingHasRun =>
    \A x \in Nodes, y \in Nodes :
      (parentElement(x) = parentElement(y) /\ childIndex(x) < childIndex(y))
        => /\ HasKind(x, {"nth-child"})
                => CostOfKind(x, {"nth-child"}) < CostOfKind(y, {"nth-child"})
           /\ (HasKind(x, {"nth-last-child"}) /\ HasKind(y, {"nth-last-child"}))
                => CostOfKind(y, {"nth-last-child"}) < CostOfKind(x, {"nth-last-child"})

-----------------------------------------------------------------------------
(* C24: children-identity cost.  For a single target x, a descendant c of  *)
(* x whose parent is d levels below x (d = 0 for the children of x) and a  *)
(* local descriptor X of c, once the Children generator has run.           *)
ChildrenHasRun == pc # "failed" /\ \E i \in 1..Len(ran) : ran[i] = "children"

ChildDepth(x, c) == DepthBelow(x, c) - 1

AnchoredText(d, X) ==
  IF d > 0 THEN ":has(" \o Rep(">*", d) \o ">" \o X.selector \o ")"
  ELSE ":has(>" \o X.selector \o ")"

UnanchoredText(X) == ":has(* " \o X.selector \o ")"

(* the own-level descriptors with the given selector are there and all     *)
(* have the given cost                                                     *)
EmittedAtCost(fragment, cost) ==
  /\ EmittedOwn(fragment)
  /\ \A i \in DOMAIN selectors :
       (selectors[i].level = 0 /\ selectors[i].selector = fragment)
         => selectors[i].cost = cost

(* C24 as stated: the anchored and, for d > 0, the unanchored descriptor   *)
(* derived from X both cost d*COST_DISTANCE + COST_IS_HAS + COST_CHILDREN  *)
(* + cost(X).                                                              *)
C24_ChildrenCostByDepth ==
  (ChildrenHasRun /\ Len(elements) = 1) =>
    \A c \in Descendants(elements[1]) :
    \E d \in {ChildDepth(elements[1], c)} :
    \A X \in Range(localOf(c)) :
      /\ EmittedAtCost(AnchoredText(d, X),
                       d * COST_DISTANCE + COST_IS_HAS + COST_CHILDREN + X.cost)
      /\ d > 0 => EmittedAtCost(UnanchoredText(X),
                                d * COST_DISTANCE + COST_IS_HAS + COST_CHILDREN + X.cost)

(* C24 amended: the anchored descriptor costs d*COST_DISTANCE +            *)
(* COST_IS_HAS + COST_CHILDREN + cost(X); the unanchored one, written for  *)
(* d > 0, costs COST_DISTANCE + COST_IS_HAS + COST_CHILDREN + cost(X)      *)
(* whatever the depth.                                                     *)
C24_ChildrenCost ==
  (ChildrenHasRun /\ Len(elements) = 1) =>
    \A c \in Descendants(elements[1]) :
    \E d \in {ChildDepth(elements[1], c)} :
    \A X \in Range(localOf(c)) :
      /\ EmittedAtCost(AnchoredText(d, X),
                       d * COST_DISTANCE + COST_IS_HAS + COST_CHILDREN + X.cost)
      /\ d > 0 => EmittedAtCost(UnanchoredText(X),
                                COST_DISTANCE + COST_IS_HAS + COST_CHILDREN + X.cost)

(* a target with a descendant two levels below its children *)
C24_Witness ==
  /\ ChildrenHasRun
  /\ Len(elements) = 1
  /\ \E c \in Descendants(elements[1]) :
       /\ ChildDepth(elements[1], c) = 2
       /\ \E X \in Range(localOf(c)) :
            EmittedOwn(AnchoredText(2, X)) /\ EmittedOwn(UnanchoredText(X))

-----------------------------------------------------------------------------
(* C25: the debug optimizer.  When findBest took its degenerate path and   *)
(* the full set does not match the first target, the set whose selector    *)
(* was logged is a sub-sequence of the full set, does not match the target *)
(* either, and matches it as soon as any one descriptor is taken away.     *)
RECURSIVE IsSubSequence(_, _)
IsSubSequence(sub, full) ==
  IF sub = <<>> THEN TRUE
  ELSE IF full = <<>> THEN FALSE
  ELSE IF Head(sub) = Head(full) THEN IsSubSequence(Tail(sub), Tail(full))
  ELSE IsSubSequence(sub, Tail(full))

DegenerateReturn == Returned /\ logged # <<>>

C25_MinimalNonMatching ==
  (DegenerateReturn /\ ~matches(elements[1], selectors)) =>
    \E minimal \in {findMinimalNonMatchingSet(elements[1], selectors)} :
      /\ logged = <<build(minimal)>>
      /\ IsSubSequence(minimal, selectors)
      /\ ~matches(elements[1], minimal)
      /\ \A i \in 1..Len(minimal) : matches(elements[1], WithoutIndex(minimal, i))

(* a degenerate return where the pass removed two descriptors or more and  *)
(* kept one                                                                *)
C25_Witness ==
  /\ DegenerateReturn
  /\ ~matches(elements[1], selectors)
  /\ \E minimal \in {findMinimalNonMatchingSet(elements[1], selectors)} :
       Len(minimal) = 1 /\ Len(selectors) >= 3

-----------------------------------------------------------------------------
(* C26: bottom-up early stop.  The trials of a pass of the while loop are  *)
(* the best set plus one descriptor it does not hold, in the order of the  *)
(* array, level > 0 descriptors left out while the best set is empty.  The *)
(* for loop breaks at the first trial whose value is the number of         *)
(* targets: ExactTrial is that descriptor's index, 0 when there is none.   *)
TrialIndices ==
  {i \in 1..Len(selectors) :
     /\ ~Contains(bestSelectorSet, i)
     /\ ~(bestSelectorSet = <<>> /\ selectors[i].level > 0)}

ExactTrials ==
  {i \in TrialIndices :
     bottomUpGetValue(elements, SetOf(Append(bestSelectorSet, i))) = Len(elements)}

ExactTrial == IF ExactTrials = {} THEN 0 ELSE CHOOSE i \in ExactTrials : \A j \in ExactTrials : i <= j

(* a pass in which a trial is an exact match is the last one, and findBest *)
(* returns that trial set                                                  *)
C26_EarlyStop ==
  [][(pc = "bottomUpLoop" /\ ExactTrial # 0) =>
       /\ pc' = "bottomUpDone"
       /\ bestSelectorSet' = Append(bestSelectorSet, ExactTrial)]_vars

(* what holds: a pass that commits an exact match is the last one, and     *)
(* that set is returned as it is                                           *)
C26_StopOnExactCommit ==
  [][(pc = "bottomUpLoop" /\ bestValue' = Len(elements)) =>
       /\ pc' = "bottomUpDone"
       /\ bestSelectorSet' = Append(bestSelectorSet, ExactTrial)
       /\ ExactTrial # 0]_vars

-----------------------------------------------------------------------------
(* C27: bottom-up threshold descent.  findBest starts with the threshold   *)
(* 16 and halves it down to 1, returning a set that is not an exact match  *)
(* only after the threshold 1; a commit under the threshold t adds exactly *)
(* one descriptor the committed set did not hold and lowers the committed  *)
(* match count by t or more, the first commit starting from no value; the  *)
(* committed count never goes up.                                          *)
Thresholds == {16, 8, 4, 2, 1}

C27_ThresholdDescent ==
  /\ [][(pc = "bottomUp") => (threshold' = 16 /\ bestSelectorSet' = <<>>)]_vars
  /\ [][(pc = "bottomUpLoop") =>
          /\ threshold \in Thresholds
          /\ threshold' = threshold \/ 2 * threshold' = threshold
          /\ threshold' # threshold => bestSelectorSet' = bestSelectorSet
          /\ (pc' = "bottomUpDone" /\ bestValue' # Len(elements)) => threshold = 1
          /\ bestSelectorSet' # bestSelectorSet =>
               /\ \E i \in 1..Len(selectors) :
                    /\ ~Contains(bestSelectorSet, i)
                    /\ bestSelectorSet' = Append(bestSelectorSet, i)
               /\ bestValue' = MatchCount(build(SetOf(bestSelectorSet')))
               /\ bestValue = Infinity \/ bestValue - bestValue' >= threshold
          /\ bestSelectorSet' = bestSelectorSet => bestValue' = bestValue
          /\ bestValue # Infinity => (bestValue' # Infinity /\ bestValue' <= bestValue)]_vars

(* a call that committed twice, the second time under the threshold 1 *)
C27_Witness ==
  /\ pc = "bottomUpDone"
  /\ Len(bestSelectorSet) = 2
  /\ threshold = 1
  /\ bestValue = 1

-----------------------------------------------------------------------------
(* C28: bottom-up anchoring.  The first descriptor bottom-up findBest      *)
(* commits has a level <= 0, so every non-empty set it holds or returns    *)
(* has a descriptor of the element's own level.                            *)
C28_BottomUpAnchored ==
  /\ [](BottomUpCommitted =>
          /\ selectors[bestSelectorSet[1]].level <= 0
          /\ \E k \in Range(bestSelectorSet) : selectors[k].level <= 0)
  /\ [][(pc = "bottomUpLoop" /\ bestSelectorSet = <<>> /\ bestSelectorSet' # <<>>) =>
          /\ Len(bestSelectorSet') = 1
          /\ selectors[bestSelectorSet'[1]].level <= 0]_vars

(* a returned set that holds a parent-level descriptor next to its anchor, *)
(* from an array in which a parent-level descriptor comes first            *)
C28_Witness ==
  /\ pc = "bottomUpDone"
  /\ bestSelectorSet # <<>>
  /\ selectors[1].level > 0
  /\ \E k \in Range(bestSelectorSet) : selectors[k].level > 0

-----------------------------------------------------------------------------
(* C29: build never returns the empty string.  It does not for any         *)
(* sequence of up to MaxLen descriptors of the pool, at any levels; and of *)
(* the sets the optimizers value in a state, and of what is left of them   *)
(* without their own-level descriptors, each builds to a non-empty         *)
(* selector, so that getValue and matches go on to the query: their result *)
(* is the one computed from the elements the selector matches.  A set      *)
(* without own-level descriptors builds to a selector that ends in "*".    *)
AncestorOnly(idxs) == SelectSeq(idxs, LAMBDA k : selectors[k].level > 0)

ValuedSets == TrialSets \cup {AncestorOnly(idxs) : idxs \in TrialSets}

C29_BuildNeverEmpty ==
  /\ pc = "call" => \A set \in SeqsUpTo(BuildPool, MaxLen) : Text(build(set)) # ""
  /\ \A idxs \in ValuedSets :
       \E set \in {SetOf(idxs)} :
       \E selector \in {build(set)} :
       \E results \in {querySelectorAll(selector)} :
         /\ Text(selector) # ""
         /\ getValue(elements, set) = valueOf(elements, set, results)
         /\ bottomUpGetValue(elements, set) = bottomUpValueOf(elements, results)
         /\ \A e \in Targets : matches(e, set) <=> Contains(results, e)
         /\ OwnGroup(set) = <<>> => selector[Len(selector)] = "*"

(* an optimizer values a non-empty set that has no own-level descriptor    *)
(* and whose selector matches an element                                   *)
C29_Witness ==
  /\ pc \in {"loop", "bottomUpLoop"}
  /\ \E idxs \in ValuedSets :
       /\ idxs # <<>>
       /\ OwnGroup(SetOf(idxs)) = <<>>
       /\ querySelectorAll(build(SetOf(idxs))) # <<>>

-----------------------------------------------------------------------------
(* C30: target-order independence.  For two targets, what the Local, the   *)
(* Sibling and the Parent generator return for the list and for the list   *)
(* in the other order are the same records (cost, level, type, selector).  *)
GeneratedBy(stage, elems) ==
  CASE stage = "local" -> localGenerator(elems)
    [] stage = "sibling" -> siblingGenerator(elems)
    [] stage = "parent" -> parentGenerator(elems)

AllGeneratorsRan == pc = "findBest"

C30_OrderIndependent ==
  (AllGeneratorsRan /\ Len(elements) = 2) =>
    \A stage \in {"local", "sibling", "parent"} :
      /\ Range(GeneratedBy(stage, elements)) \subseteq Range(selectors)
      /\ Range(GeneratedBy(stage, elements)) = Range(GeneratedBy(stage, Reverse(elements)))

(* what holds: the Local generator returns the same records in both        *)
(* orders, and the Sibling and Parent generators the same selector texts   *)
C30_SameSelectorsAnyOrder ==
  (AllGeneratorsRan /\ Len(elements) = 2) =>
    /\ Range(localGenerator(elements)) = Range(localGenerator(Reverse(elements)))
    /\ \A stage \in {"sibling", "parent"} :
         {d.selector : d \in Range(GeneratedBy(stage, elements))}
           = {d.selector : d \in Range(GeneratedBy(stage, Reverse(elements)))}

====
